---------------------------- MODULE Spec2Model ----------------------------
(***************************************************************************)
(* Model of the declaration scanner of                                     *)
(* .agents/skills/llm-native-signature-spec/scripts/generate_signatures.py *)
(*                                                                         *)
(* Source text is a TLA+ string; offsets are 0-based as in the Python      *)
(* source (At, Slice).  None is the Python None of an optional offset.     *)
(*                                                                         *)
(* A loop over the characters of a text is modelled by its body, a step    *)
(* operator from loop state to loop state applied at one offset, and a     *)
(* loop operator that applies the step at every offset of a range in       *)
(* ascending order (the range is halved so that the evaluation stays       *)
(* shallow).  A loop state carries done once the body has returned.        *)
(***************************************************************************)
EXTENDS Integers, Sequences, FiniteSets, TLC

VARIABLES
    \* ---- strip_comments applied to one line, then to its own output ----
    sc_line,        \* the line handed to strip_comments
    sc_flag,        \* the incoming in_block_comment flag
    sc_pc,          \* "in" -> "stripped" -> "restripped"
    sc_out,         \* strip_comments(sc_line, sc_flag)
    sc_again,       \* strip_comments(sc_out.text, False)
    \* ---- count_balance_outside_strings applied to one line ----
    cb_line,        \* the line handed to count_balance_outside_strings
    cb_open,        \* open_char
    cb_close,       \* close_char
    cb_pc,          \* "in" -> "counted"
    cb_balance,     \* the balance returned
    \* ---- the generator run: parse_file on each file in turn ----
    files,          \* the source files of the run, [path, text] each
    file_idx,       \* the file the run stands at
    pc,             \* the statement the run stands at
    types,          \* parse_types(text)
    type_idx,       \* the TypeBlock the loop of parse_types_and_members stands at
    fields,         \* fields of parse_types_and_members
    methods,        \* methods of parse_types_and_members
    body_lines,     \* body.splitlines() of the type being extracted
    line_idx,       \* the line the loop of extract_members_from_body stands at
    ex,             \* the locals of extract_members_from_body
    records,        \* the text parse_file returned, per file
    \* ---- the output tree read back: build_indexes and the pipeline ----
    index_sig,      \* the text of INDEX.sig
    metadata,       \* signature_metadata of every signature file
    loaded,         \* load_signatures of the pipeline: [error, records]
    \* ---- the generator's main over a repository that changes between runs ----
    src_tree,       \* the files of the repository outside the output directory
    out_dir,        \* --output-dir
    out_tree,       \* the files under the output directory: path -> text
    tree_pc,        \* "edited" -> "generated" -> "loaded"
    \* ---- the journey validator: main of validate_journey_signature_links.py ----
    args,           \* the parsed command line
    repo,           \* the files of the repository the validator reads
    vj_pc,          \* the statement of main the validator is at
    vj,             \* the locals of main
    report,         \* the report written, NoReport before
    exit_code,      \* the exit status of the process, None while it runs
    \* ---- history of the extraction in progress (not program state) ----
    hist            \* pending_from: the line the pending declaration started at;
                    \* origins: per emitted entry, its list, text and line range

cbVars == <<cb_line, cb_open, cb_close, cb_pc, cb_balance>>

scVars == <<sc_line, sc_flag, sc_pc, sc_out, sc_again, cbVars>>

runVars == <<files, file_idx, pc, types, type_idx, fields, methods,
             body_lines, line_idx, ex, records, hist>>

treeVars == <<src_tree, out_dir, out_tree, tree_pc>>

ixVars == <<index_sig, metadata, loaded, treeVars>>

vjVars == <<args, repo, vj_pc, vj, report, exit_code>>

vars == <<scVars, runVars, ixVars, vjVars>>

None == -1

\* no match of a pattern
NoMatch == [start |-> -1, end |-> -1, kind |-> "", name |-> ""]

(***************************************************************************)
(* Bounds of the model.                                                    *)
(***************************************************************************)
MaxStripLen == 5

MaxFragments == 3

(***************************************************************************)
(* Python string primitives.                                               *)
(***************************************************************************)
At(s, i) == SubSeq(s, i + 1, i + 1)

Slice(s, a, b) == SubSeq(s, a + 1, b)

StartsWithAt(s, w, i) == i + Len(w) <= Len(s) /\ SubSeq(s, i + 1, i + Len(w)) = w

Least(S) == CHOOSE i \in S : \A j \in S : i <= j

Greatest(S) == CHOOSE i \in S : \A j \in S : i >= j

\* str.find(w, i)
Find(s, w, i) ==
    LET hits == {j \in i..(Len(s) - Len(w)) : StartsWithAt(s, w, j)}
    IN  IF hits = {} THEN -1 ELSE Least(hits)

Contains(s, w) == \E j \in 0..(Len(s) - Len(w)) : StartsWithAt(s, w, j)

EndsWith(s, w) == Len(s) >= Len(w) /\ StartsWithAt(s, w, Len(s) - Len(w))

(***************************************************************************)
(* Character classes of the regular expressions.  The whitespace of the    *)
(* modelled alphabet is blank, tab and newline; newline is the only line   *)
(* boundary.                                                               *)
(***************************************************************************)
Lower == {"a", "b", "c", "d", "e", "f", "g", "h", "i", "j", "k", "l", "m",
          "n", "o", "p", "q", "r", "s", "t", "u", "v", "w", "x", "y", "z"}

Upper == {"A", "B", "C", "D", "E", "F", "G", "H", "I", "J", "K", "L", "M",
          "N", "O", "P", "Q", "R", "S", "T", "U", "V", "W", "X", "Y", "Z"}

Digit == {"0", "1", "2", "3", "4", "5", "6", "7", "8", "9"}

IdentStart == Lower \cup Upper \cup {"_"}

WordChar == IdentStart \cup Digit

Blank == {" ", "\t"}

Whitespace == {" ", "\t", "\n"}

\* [A-Za-z0-9_<>,\[\]\.?\s@]
JavaTypeChar == WordChar \cup {"<", ">", ",", "[", "]", ".", "?", "@"} \cup Whitespace

\* first offset >= i whose character is not in set (Len(s) when there is none)
SkipSet(s, i, set) ==
    LET others == {j \in i..(Len(s) - 1) : At(s, j) \notin set}
    IN  IF others = {} THEN Len(s) ELSE Least(others)

\* last offset <= i whose character is not in set (-1 when there is none)
SkipBackSet(s, i, set) ==
    LET others == {j \in 0..i : At(s, j) \notin set}
    IN  IF others = {} THEN -1 ELSE Greatest(others)

\* \b after a word character at offset i - 1
WordEndsAt(s, i) == i >= Len(s) \/ At(s, i) \notin WordChar

\* str.strip()
strip(s) ==
    LET a == SkipSet(s, 0, Whitespace)
        b == SkipBackSet(s, Len(s) - 1, Whitespace)
    IN  IF a >= Len(s) THEN "" ELSE Slice(s, a, b + 1)

\* re.sub(r"\s+", " ", value) on the offsets a..b-1: a blank for the first
\* character of a whitespace run, nothing for the others
RECURSIVE CollapseWs(_, _, _)
CollapseWs(s, a, b) ==
    IF a >= b THEN ""
    ELSE IF b = a + 1
    THEN IF At(s, a) \notin Whitespace THEN At(s, a)
         ELSE IF a > 0 /\ At(s, a - 1) \in Whitespace THEN ""
         ELSE " "
    ELSE CollapseWs(s, a, (a + b) \div 2) \o CollapseWs(s, (a + b) \div 2, b)

normalize_ws(value) == strip(CollapseWs(value, 0, Len(value)))

normalize_kind(kind) ==
    LET normalized == normalize_ws(kind) IN
    IF normalized = "enum class" THEN "enum"
    ELSE IF normalized \in {"annotation class", "@interface"} THEN "annotation"
    ELSE normalized

\* str.splitlines(), from offset i
RECURSIVE splitlines_from(_, _)
splitlines_from(s, i) ==
    IF i >= Len(s) THEN <<>>
    ELSE LET nl == Find(s, "\n", i) IN
         IF nl = -1 THEN <<Slice(s, i, Len(s))>>
         ELSE <<Slice(s, i, nl)>> \o splitlines_from(s, nl + 1)

splitlines(s) == splitlines_from(s, 0)

RECURSIVE unique_stable_from(_, _, _)
unique_stable_from(items, i, result) ==
    IF i > Len(items) THEN result
    ELSE IF \E k \in 1..Len(result) : result[k] = items[i]
         THEN unique_stable_from(items, i + 1, result)
         ELSE unique_stable_from(items, i + 1, Append(result, items[i]))

unique_stable(items) == unique_stable_from(items, 1, <<>>)

(***************************************************************************)
(* The modifier loops of the patterns: one modifier of mods at offset i    *)
(* followed by at least one character of ws; the offset after them, or -1. *)
(* No modifier of any list is a prefix of another, so at most one fits.    *)
(***************************************************************************)
ModifierEnd(s, i, mods, ws) ==
    LET hits == {m \in mods : /\ StartsWithAt(s, m, i)
                              /\ i + Len(m) < Len(s)
                              /\ At(s, i + Len(m)) \in ws}
    IN  IF hits = {} THEN -1
        ELSE SkipSet(s, i + Len(CHOOSE m \in hits : TRUE), ws)

TYPE_MODIFIERS ==
    {"public", "protected", "private", "internal", "sealed", "final",
     "abstract", "open", "data", "value", "inner", "static", "expect",
     "actual", "fun", "annotation"}

KOTLIN_METHOD_MODIFIERS ==
    {"public", "protected", "private", "internal", "open", "final",
     "abstract", "override", "suspend", "inline", "tailrec", "operator",
     "infix", "external", "actual", "expect"}

JAVA_METHOD_MODIFIERS ==
    {"public", "protected", "private", "static", "final", "abstract",
     "synchronized", "native", "default", "strictfp"}

KOTLIN_FIELD_MODIFIERS ==
    {"public", "protected", "private", "internal", "lateinit", "const",
     "override", "open", "final", "abstract", "volatile", "transient"}

JAVA_FIELD_MODIFIERS ==
    {"public", "protected", "private", "static", "final", "transient", "volatile"}

SIMPLE_KINDS == <<"class", "interface", "object", "record", "@interface">>

CONTROL_KEYWORDS ==
    {"if ", "for ", "while ", "when ", "switch ", "catch ", "return ", "else ", "do "}

\* <word>\s+class at offset i: the offset after "class", or -1
TwoWordKindEnd(s, i, word) ==
    IF ~StartsWithAt(s, word, i) THEN -1
    ELSE LET w == SkipSet(s, i + Len(word), Whitespace) IN
         IF w > i + Len(word) /\ StartsWithAt(s, "class", w) THEN w + 5 ELSE -1

\* the alternatives of the kind group in the order of the pattern, each as
\* the offset after the keyword (or -1)
KindEnds(s, i) ==
    <<TwoWordKindEnd(s, i, "enum"), TwoWordKindEnd(s, i, "annotation")>>
    \o [k \in 1..Len(SIMPLE_KINDS) |->
            IF StartsWithAt(s, SIMPLE_KINDS[k], i) THEN i + Len(SIMPLE_KINDS[k]) ELSE -1]

(***************************************************************************)
(* TYPE_PATTERN.  The modifier loop is greedy: a modifier that fits is     *)
(* taken, and the kind group is tried at this offset only when no match    *)
(* follows the modifier.                                                   *)
(***************************************************************************)
\* kind [ \t]+ name, the kind keyword ending at offset kend
TypeNameAfter(text, start, kstart, kend) ==
    LET n == SkipSet(text, kend, Blank) IN
    IF kend = -1 \/ n = kend \/ n >= Len(text) \/ At(text, n) \notin IdentStart THEN NoMatch
    ELSE LET e == SkipSet(text, n + 1, WordChar) IN
         [start |-> start, end |-> e,
          kind |-> Slice(text, kstart, kend), name |-> Slice(text, n, e)]

TypeKindAt(text, start, q) ==
    LET ends == KindEnds(text, q)
        fits == {k \in 1..Len(ends) : TypeNameAfter(text, start, q, ends[k]) # NoMatch}
    IN  IF fits = {} THEN NoMatch
        ELSE TypeNameAfter(text, start, q, ends[CHOOSE k \in fits : \A j \in fits : k <= j])

RECURSIVE TypeModifiersAt(_, _, _)
TypeModifiersAt(text, start, q) ==
    LET m == ModifierEnd(text, q, TYPE_MODIFIERS, Blank) IN
    IF m = -1 THEN TypeKindAt(text, start, q)
    ELSE LET longer == TypeModifiersAt(text, start, m) IN
         IF longer # NoMatch THEN longer ELSE TypeKindAt(text, start, q)

\* TYPE_PATTERN.match at the line start p
TYPE_PATTERN_at(text, p) == TypeModifiersAt(text, p, SkipSet(text, p, Blank))

\* TYPE_PATTERN.finditer(text) from the line start p on
RECURSIVE TYPE_PATTERN_finditer(_, _)
TYPE_PATTERN_finditer(text, p) ==
    IF p > Len(text) THEN <<>>
    ELSE LET m  == TYPE_PATTERN_at(text, p)
             from == IF m = NoMatch THEN p ELSE m.end
             nl == Find(text, "\n", from)
             rest == IF nl = -1 THEN <<>> ELSE TYPE_PATTERN_finditer(text, nl + 1)
         IN  IF m = NoMatch THEN rest ELSE <<m>> \o rest

(***************************************************************************)
(* TYPE_START, KOTLIN_METHOD_START, KOTLIN_FIELD_START: a modifier loop    *)
(* followed by a keyword and a word boundary.                              *)
(***************************************************************************)
RECURSIVE TYPE_START_from(_, _)
TYPE_START_from(line, q) ==
    \/ \E k \in 1..Len(KindEnds(line, q)) :
            KindEnds(line, q)[k] # -1 /\ WordEndsAt(line, KindEnds(line, q)[k])
    \/ LET m == ModifierEnd(line, q, TYPE_MODIFIERS, Whitespace) IN
       m # -1 /\ TYPE_START_from(line, m)

TYPE_START(line) == TYPE_START_from(line, 0)

RECURSIVE KeywordAfterModifiers(_, _, _, _)
KeywordAfterModifiers(line, q, mods, keywords) ==
    \/ \E w \in keywords : StartsWithAt(line, w, q) /\ WordEndsAt(line, q + Len(w))
    \/ LET m == ModifierEnd(line, q, mods, Whitespace) IN
       m # -1 /\ KeywordAfterModifiers(line, m, mods, keywords)

KOTLIN_METHOD_START(line) == KeywordAfterModifiers(line, 0, KOTLIN_METHOD_MODIFIERS, {"fun"})

KOTLIN_FIELD_START(line) == KeywordAfterModifiers(line, 0, KOTLIN_FIELD_MODIFIERS, {"val", "var"})

(***************************************************************************)
(* JAVA_METHOD_START and JAVA_FIELD_START:                                 *)
(*   (mod\s+)+ [A-Za-z_] [type chars]* \s+ identifier \s* terminator       *)
(* The terminator is the first character after the modifiers that is not   *)
(* a type character; the identifier is the word that ends before it and    *)
(* must stand after whitespace.  A match with more modifiers taken is also *)
(* a match with one modifier taken, the others being type characters.      *)
(***************************************************************************)
JavaDeclarationStart(line, mods, terminators) ==
    LET p == ModifierEnd(line, 0, mods, Whitespace)
        q == SkipSet(line, p + 1, JavaTypeChar)
        e == SkipBackSet(line, q - 1, Whitespace)
        s == SkipBackSet(line, e, WordChar) + 1
    IN  /\ p # -1
        /\ p < Len(line)
        /\ At(line, p) \in IdentStart
        /\ q < Len(line)
        /\ At(line, q) \in terminators
        /\ s <= e
        /\ At(line, s) \in IdentStart
        /\ s - 1 >= p + 1
        /\ At(line, s - 1) \in Whitespace

JAVA_METHOD_START(line) == JavaDeclarationStart(line, JAVA_METHOD_MODIFIERS, {"("})

JAVA_FIELD_START(line) == JavaDeclarationStart(line, JAVA_FIELD_MODIFIERS, {"=", ";"})

starts_control_flow(line) == \E prefix \in CONTROL_KEYWORDS : StartsWithAt(line, prefix, 0)

looks_like_method_start(line) ==
    IF starts_control_flow(line) THEN FALSE
    ELSE KOTLIN_METHOD_START(line) \/ JAVA_METHOD_START(line)

\* line.split("=", 1)[0]
BeforeFirstEquals(line) ==
    LET eq == Find(line, "=", 0) IN IF eq = -1 THEN line ELSE Slice(line, 0, eq)

looks_like_field_start(line) ==
    IF starts_control_flow(line) THEN FALSE
    ELSE IF KOTLIN_FIELD_START(line) THEN TRUE
    ELSE IF JAVA_FIELD_START(line) THEN ~Contains(BeforeFirstEquals(line), "(")
    ELSE FALSE

(***************************************************************************)
(* The literal state that every scanner carries (in_single, in_double,     *)
(* escaped) and its update by one character; LiteralConsumes says that the *)
(* literal handling took the character (the scanner's "continue").         *)
(***************************************************************************)
NoLiteral == [in_single |-> FALSE, in_double |-> FALSE, escaped |-> FALSE]

LiteralStep(st, ch) ==
    IF st.escaped THEN [st EXCEPT !.escaped = FALSE]
    ELSE IF ch = "\\" /\ (st.in_single \/ st.in_double) THEN [st EXCEPT !.escaped = TRUE]
    ELSE IF ch = "'" /\ ~st.in_double THEN [st EXCEPT !.in_single = ~st.in_single]
    ELSE IF ch = "\"" /\ ~st.in_single THEN [st EXCEPT !.in_double = ~st.in_double]
    ELSE st

LiteralConsumes(st, ch) ==
    \/ st.escaped
    \/ ch = "\\" /\ (st.in_single \/ st.in_double)
    \/ ch = "'" /\ ~st.in_double
    \/ ch = "\"" /\ ~st.in_single
    \/ st.in_single \/ st.in_double

(***************************************************************************)
(* count_balance_outside_strings                                           *)
(***************************************************************************)
\* the step with a backslash taken as an escape outside literals too
count_balance_step_escape_anywhere(line, idx, st, open_char, close_char) ==
    LET ch == At(line, idx) IN
    IF st.lit.escaped THEN [st EXCEPT !.lit.escaped = FALSE]
    ELSE IF ch = "\\" THEN [st EXCEPT !.lit.escaped = TRUE]
    ELSE IF LiteralConsumes(st.lit, ch) THEN [st EXCEPT !.lit = LiteralStep(st.lit, ch)]
    ELSE IF ch = open_char THEN [st EXCEPT !.balance = st.balance + 1]
    ELSE IF ch = close_char THEN [st EXCEPT !.balance = st.balance - 1]
    ELSE st

count_balance_step(line, idx, st, open_char, close_char) ==
    LET ch == At(line, idx) IN
    IF LiteralConsumes(st.lit, ch) THEN [st EXCEPT !.lit = LiteralStep(st.lit, ch)]
    ELSE IF ch = open_char THEN [st EXCEPT !.balance = st.balance + 1]
    ELSE IF ch = close_char THEN [st EXCEPT !.balance = st.balance - 1]
    ELSE st

RECURSIVE count_balance_loop(_, _, _, _, _, _)
count_balance_loop(line, a, b, st, open_char, close_char) ==
    IF st.done \/ a >= b THEN st
    ELSE IF b = a + 1 THEN count_balance_step(line, a, st, open_char, close_char)
    ELSE count_balance_loop(line, (a + b) \div 2, b,
             count_balance_loop(line, a, (a + b) \div 2, st, open_char, close_char),
             open_char, close_char)

count_balance_outside_strings(line, open_char, close_char) ==
    count_balance_loop(line, 0, Len(line),
                       [lit |-> NoLiteral, balance |-> 0, done |-> FALSE],
                       open_char, close_char).balance

(***************************************************************************)
(* The header scanners keep parenthesis and angle depth beside the literal *)
(* state.                                                                  *)
(***************************************************************************)
NoDepth == [paren |-> 0, angle |-> 0]

DepthStep(d, ch) ==
    IF ch = "(" THEN [d EXCEPT !.paren = d.paren + 1]
    ELSE IF ch = ")" /\ d.paren > 0 THEN [d EXCEPT !.paren = d.paren - 1]
    ELSE IF ch = "<" THEN [d EXCEPT !.angle = d.angle + 1]
    ELSE IF ch = ">" /\ d.angle > 0 THEN [d EXCEPT !.angle = d.angle - 1]
    ELSE d

DepthConsumes(d, ch) ==
    \/ ch = "("
    \/ ch = ")" /\ d.paren > 0
    \/ ch = "<"
    \/ ch = ">" /\ d.angle > 0

HeaderScan == [lit |-> NoLiteral, depth |-> NoDepth, done |-> FALSE, result |-> None]

Return(st, value) == [st EXCEPT !.done = TRUE, !.result = value]

\* the lookahead of the header scanners past the blanks and tabs after idx
Lookahead(text, idx, stop) ==
    LET others == {j \in (idx + 1)..(stop - 1) : At(text, j) \notin Blank}
    IN  IF others = {} THEN stop ELSE Least(others)

(***************************************************************************)
(* find_type_body_open                                                     *)
(***************************************************************************)
\* the step with the `{` test freed of the depths
find_type_body_open_step_any_depth(text, idx, stop, st) ==
    LET ch == At(text, idx) IN
    IF LiteralConsumes(st.lit, ch) THEN [st EXCEPT !.lit = LiteralStep(st.lit, ch)]
    ELSE IF ch = "{" THEN Return(st, idx)
    ELSE IF DepthConsumes(st.depth, ch) THEN [st EXCEPT !.depth = DepthStep(st.depth, ch)]
    ELSE IF ch = "\n" /\ st.depth.paren = 0 /\ st.depth.angle = 0
    THEN LET lookahead == Lookahead(text, idx, stop) IN
         IF lookahead >= stop THEN Return(st, None)
         ELSE IF StartsWithAt(text, "{", lookahead) THEN Return(st, lookahead)
         ELSE IF StartsWithAt(text, ":", lookahead) \/ StartsWithAt(text, "where ", lookahead)
         THEN st
         ELSE Return(st, None)
    ELSE st

find_type_body_open_step(text, idx, stop, st) ==
    LET ch == At(text, idx) IN
    IF LiteralConsumes(st.lit, ch) THEN [st EXCEPT !.lit = LiteralStep(st.lit, ch)]
    ELSE IF DepthConsumes(st.depth, ch) THEN [st EXCEPT !.depth = DepthStep(st.depth, ch)]
    ELSE IF ch = "{" /\ st.depth.paren = 0 /\ st.depth.angle = 0 THEN Return(st, idx)
    ELSE IF ch = "\n" /\ st.depth.paren = 0 /\ st.depth.angle = 0
    THEN LET lookahead == Lookahead(text, idx, stop) IN
         IF lookahead >= stop THEN Return(st, None)
         ELSE IF StartsWithAt(text, "{", lookahead) THEN Return(st, lookahead)
         ELSE IF StartsWithAt(text, ":", lookahead) \/ StartsWithAt(text, "where ", lookahead)
         THEN st
         ELSE Return(st, None)
    ELSE st

RECURSIVE find_type_body_open_loop(_, _, _, _, _)
find_type_body_open_loop(text, a, b, stop, st) ==
    IF st.done \/ a >= b THEN st
    ELSE IF b = a + 1 THEN find_type_body_open_step(text, a, stop, st)
    ELSE find_type_body_open_loop(text, (a + b) \div 2, b, stop,
             find_type_body_open_loop(text, a, (a + b) \div 2, stop, st))

find_type_body_open(text, start, stop) ==
    find_type_body_open_loop(text, start, stop, stop, HeaderScan).result

(***************************************************************************)
(* find_matching_brace                                                     *)
(***************************************************************************)
find_matching_brace_step(text, idx, st) ==
    LET ch == At(text, idx) IN
    IF LiteralConsumes(st.lit, ch) THEN [st EXCEPT !.lit = LiteralStep(st.lit, ch)]
    ELSE IF ch = "{" THEN [st EXCEPT !.depth = st.depth + 1]
    ELSE IF ch = "}"
    THEN IF st.depth - 1 = 0 THEN [st EXCEPT !.depth = 0, !.done = TRUE, !.result = idx]
         ELSE [st EXCEPT !.depth = st.depth - 1]
    ELSE st

RECURSIVE find_matching_brace_loop(_, _, _, _)
find_matching_brace_loop(text, a, b, st) ==
    IF st.done \/ a >= b THEN st
    ELSE IF b = a + 1 THEN find_matching_brace_step(text, a, st)
    ELSE find_matching_brace_loop(text, (a + b) \div 2, b,
             find_matching_brace_loop(text, a, (a + b) \div 2, st))

find_matching_brace_from_start(text, open_brace) ==
    find_matching_brace_loop(text, 0, Len(text),
        [lit |-> NoLiteral, depth |-> 0, done |-> FALSE, result |-> None]).result

find_matching_brace(text, open_brace) ==
    find_matching_brace_loop(text, open_brace, Len(text),
        [lit |-> NoLiteral, depth |-> 0, done |-> FALSE, result |-> None]).result

(***************************************************************************)
(* find_type_declaration_end                                               *)
(***************************************************************************)
find_type_declaration_end_step(text, idx, stop, st) ==
    LET ch == At(text, idx) IN
    IF LiteralConsumes(st.lit, ch) THEN [st EXCEPT !.lit = LiteralStep(st.lit, ch)]
    ELSE IF DepthConsumes(st.depth, ch) THEN [st EXCEPT !.depth = DepthStep(st.depth, ch)]
    ELSE IF ch = "\n" /\ st.depth.paren = 0 /\ st.depth.angle = 0
    THEN LET lookahead == Lookahead(text, idx, stop) IN
         IF lookahead >= stop THEN Return(st, idx)
         ELSE IF StartsWithAt(text, ":", lookahead) \/ StartsWithAt(text, "where ", lookahead)
         THEN st
         ELSE Return(st, idx)
    ELSE st

RECURSIVE find_type_declaration_end_loop(_, _, _, _, _)
find_type_declaration_end_loop(text, a, b, stop, st) ==
    IF st.done \/ a >= b THEN st
    ELSE IF b = a + 1 THEN find_type_declaration_end_step(text, a, stop, st)
    ELSE find_type_declaration_end_loop(text, (a + b) \div 2, b, stop,
             find_type_declaration_end_loop(text, a, (a + b) \div 2, stop, st))

find_type_declaration_end(text, start, stop) ==
    LET st == find_type_declaration_end_loop(text, start, stop, stop, HeaderScan)
    IN  IF st.done THEN st.result ELSE stop

(***************************************************************************)
(* parse_types: one TypeBlock per match of TYPE_PATTERN, in match order.   *)
(***************************************************************************)
TypeBlock(text, matches, idx) ==
    LET match == matches[idx]
        next_start == IF idx + 1 <= Len(matches) THEN matches[idx + 1].start ELSE Len(text)
        open_brace == find_type_body_open(text, match.end, next_start)
        close_brace == IF open_brace # None THEN find_matching_brace(text, open_brace) ELSE None
        header_end == IF open_brace # None THEN open_brace
                      ELSE find_type_declaration_end(text, match.end, next_start)
    IN  [kind |-> normalize_kind(match.kind),
         name |-> match.name,
         header |-> normalize_ws(Slice(text, match.start, header_end)),
         open_brace |-> open_brace,
         close_brace |-> close_brace]

parse_types(text) ==
    LET matches == TYPE_PATTERN_finditer(text, 0)
    IN  [idx \in 1..Len(matches) |-> TypeBlock(text, matches, idx)]

(***************************************************************************)
(* Declaration completion and cleaning.                                    *)
(***************************************************************************)
declaration_complete(kind, line, paren_depth) ==
    IF kind = "method" THEN
        IF paren_depth > 0 THEN FALSE
        ELSE Contains(line, "{") \/ Contains(line, "=") \/ Contains(line, ";")
    ELSE IF Contains(line, ";") THEN TRUE
    ELSE IF Contains(line, "=") /\ paren_depth <= 0 THEN TRUE
    ELSE paren_depth <= 0 /\ ~EndsWith(line, ",")

truncate_top_level_equals_step(signature, idx, st) ==
    LET ch == At(signature, idx) IN
    IF LiteralConsumes(st.lit, ch) THEN [st EXCEPT !.lit = LiteralStep(st.lit, ch)]
    ELSE IF DepthConsumes(st.depth, ch) THEN [st EXCEPT !.depth = DepthStep(st.depth, ch)]
    ELSE IF ch = "=" /\ st.depth.paren = 0 /\ st.depth.angle = 0 THEN Return(st, idx)
    ELSE st

RECURSIVE truncate_top_level_equals_loop(_, _, _, _)
truncate_top_level_equals_loop(signature, a, b, st) ==
    IF st.done \/ a >= b THEN st
    ELSE IF b = a + 1 THEN truncate_top_level_equals_step(signature, a, st)
    ELSE truncate_top_level_equals_loop(signature, (a + b) \div 2, b,
             truncate_top_level_equals_loop(signature, a, (a + b) \div 2, st))

truncate_top_level_equals(signature) ==
    LET st == truncate_top_level_equals_loop(signature, 0, Len(signature), HeaderScan)
    IN  IF st.done THEN Slice(signature, 0, st.result) ELSE signature

\* re.sub(r"\s*(?:\{|=|;)\s*$", "", normalized)
StripTrailingOpener(s) ==
    LET last == SkipBackSet(s, Len(s) - 1, Whitespace) IN
    IF last >= 0 /\ At(s, last) \in {"{", "=", ";"}
    THEN Slice(s, 0, SkipBackSet(s, last - 1, Whitespace) + 1)
    ELSE s

\* str.rstrip(",")
rstrip_commas(s) == Slice(s, 0, SkipBackSet(s, Len(s) - 1, {","}) + 1)

clean_member_signature(signature) ==
    rstrip_commas(StripTrailingOpener(normalize_ws(truncate_top_level_equals(signature))))

\* " ".join(parts)
RECURSIVE join_from(_, _)
join_from(parts, i) ==
    IF i > Len(parts) THEN ""
    ELSE IF i = Len(parts) THEN parts[i]
    ELSE parts[i] \o " " \o join_from(parts, i + 1)

join(parts) == join_from(parts, 1)

(***************************************************************************)
(* strip_comments.  The loop state holds i, the offset the while loop      *)
(* stands at: the body runs at offset idx only when idx = i.               *)
(***************************************************************************)
strip_comments_unchecked_after_close(line, idx, st) ==
    IF idx # st.i THEN st
    ELSE IF st.in_block_comment THEN
        LET end == Find(line, "*/", idx) IN
        IF end = -1 THEN [st EXCEPT !.done = TRUE, !.out = ""]
        ELSE IF end + 2 < Len(line)
             THEN [st EXCEPT !.i = end + 3, !.in_block_comment = FALSE,
                             !.out = st.out \o At(line, end + 2)]
             ELSE [st EXCEPT !.i = end + 2, !.in_block_comment = FALSE]
    ELSE IF StartsWithAt(line, "/*", idx)
    THEN [st EXCEPT !.in_block_comment = TRUE, !.i = idx + 2]
    ELSE IF StartsWithAt(line, "//", idx) THEN [st EXCEPT !.done = TRUE]
    ELSE [st EXCEPT !.out = st.out \o At(line, idx), !.i = idx + 1]

strip_comments_step(line, idx, st) ==
    IF idx # st.i THEN st
    ELSE IF st.in_block_comment THEN
        LET end == Find(line, "*/", idx) IN
        IF end = -1 THEN [st EXCEPT !.done = TRUE, !.out = ""]
        ELSE [st EXCEPT !.i = end + 2, !.in_block_comment = FALSE]
    ELSE IF StartsWithAt(line, "/*", idx)
    THEN [st EXCEPT !.in_block_comment = TRUE, !.i = idx + 2]
    ELSE IF StartsWithAt(line, "//", idx) THEN [st EXCEPT !.done = TRUE]
    ELSE [st EXCEPT !.out = st.out \o At(line, idx), !.i = idx + 1]

RECURSIVE strip_comments_loop(_, _, _, _)
strip_comments_loop(line, a, b, st) ==
    IF st.done \/ a >= b THEN st
    ELSE IF b = a + 1 THEN strip_comments_step(line, a, st)
    ELSE strip_comments_loop(line, (a + b) \div 2, b,
             strip_comments_loop(line, a, (a + b) \div 2, st))

\* the scan as it would be if the incoming flag were not threaded in
strip_comments_flag_dropped(line, in_block_comment) ==
    LET st == strip_comments_loop(line, 0, Len(line),
                  [i |-> 0, in_block_comment |-> FALSE, out |-> "", done |-> FALSE])
    IN  [text |-> st.out, flag |-> st.in_block_comment]

strip_comments(line, in_block_comment) ==
    LET st == strip_comments_loop(line, 0, Len(line),
                  [i |-> 0, in_block_comment |-> in_block_comment, out |-> "", done |-> FALSE])
    IN  [text |-> st.out, flag |-> st.in_block_comment]

(***************************************************************************)
(* Whether offset i of a line lies inside a literal: the literal state of  *)
(* count_balance_outside_strings when its scan reaches offset i.           *)
(***************************************************************************)
InsideLiteral(line, i) ==
    LET st == count_balance_loop(line, 0, i,
                  [lit |-> NoLiteral, balance |-> 0, done |-> FALSE], "(", ")").lit
    IN  st.in_single \/ st.in_double

(***************************************************************************)
(* extract_members_from_body: the locals before the first line, and the    *)
(* body of the loop over the lines.                                        *)
(***************************************************************************)
NoKind == "None"

\* the value of ex while extract_members_from_body is not running
NoFrame ==
    [fields |-> <<>>, methods |-> <<>>, brace_depth |-> 0,
     pending_kind |-> NoKind, pending_parts |-> <<>>, pending_paren_depth |-> 0,
     skipping_type_header |-> FALSE, type_header_paren_depth |-> 0,
     in_block_comment |-> FALSE]

NoHistory == [pending_from |-> 0, origins |-> <<>>]

\* the locals as they would be if in_block_comment outlived the call
ExtractorLocalsStaleComment == [NoFrame EXCEPT !.in_block_comment = ex.in_block_comment]

ExtractorLocals ==
    [fields |-> <<>>, methods |-> <<>>, brace_depth |-> 0,
     pending_kind |-> NoKind, pending_parts |-> <<>>, pending_paren_depth |-> 0,
     skipping_type_header |-> FALSE, type_header_paren_depth |-> 0,
     in_block_comment |-> FALSE]

\* the completion branch without the reset of the parenthesis depth
Complete_depth_kept(e, kind, parts) ==
    LET cleaned == clean_member_signature(join(parts))
        emitted == IF cleaned = "" THEN e
                   ELSE IF kind = "field"
                   THEN [e EXCEPT !.fields = Append(e.fields, cleaned)]
                   ELSE [e EXCEPT !.methods = Append(e.methods, cleaned)]
    IN  [emitted EXCEPT !.pending_kind = NoKind, !.pending_parts = <<>>]

\* the completion branch: append the cleaned declaration, reset the pending state
Complete(e, kind, parts) ==
    LET cleaned == clean_member_signature(join(parts))
        emitted == IF cleaned = "" THEN e
                   ELSE IF kind = "field"
                   THEN [e EXCEPT !.fields = Append(e.fields, cleaned)]
                   ELSE [e EXCEPT !.methods = Append(e.methods, cleaned)]
    IN  [emitted EXCEPT !.pending_kind = NoKind, !.pending_parts = <<>>,
                        !.pending_paren_depth = 0]

\* lines 404-415
SkipTypeHeaderLine(e, stripped) ==
    IF stripped = "" THEN e
    ELSE LET depth == e.type_header_paren_depth
                      + count_balance_outside_strings(stripped, "(", ")")
             e1 == [e EXCEPT !.type_header_paren_depth = depth]
         IN  IF Contains(stripped, "{") /\ depth <= 0
             THEN [e1 EXCEPT !.skipping_type_header = FALSE]
             ELSE IF /\ depth <= 0
                     /\ ~EndsWith(stripped, ",")
                     /\ ~StartsWithAt(stripped, ":", 0)
                     /\ ~StartsWithAt(stripped, "where ", 0)
             THEN [e1 EXCEPT !.skipping_type_header = FALSE]
             ELSE e1

\* lines 416-429
AccumulateLine(e, stripped) ==
    LET e1 == IF stripped = "" THEN e
              ELSE [e EXCEPT
                      !.pending_parts = Append(e.pending_parts, stripped),
                      !.pending_paren_depth =
                          e.pending_paren_depth
                          + count_balance_outside_strings(stripped, "(", ")")]
    IN  IF declaration_complete(e1.pending_kind, stripped, e1.pending_paren_depth)
        THEN Complete(e1, e1.pending_kind, e1.pending_parts)
        ELSE e1

\* lines 437-446 and 448-457
StartDeclaration(e, kind, stripped) ==
    LET depth == count_balance_outside_strings(stripped, "(", ")")
        e1 == [e EXCEPT !.pending_kind = kind, !.pending_parts = <<stripped>>,
                        !.pending_paren_depth = depth]
    IN  IF declaration_complete(kind, stripped, depth)
        THEN Complete(e1, kind, e1.pending_parts)
        ELSE e1

\* lines 430-457
ScanLine(e, stripped) ==
    IF TYPE_START(stripped)
    THEN LET depth == count_balance_outside_strings(stripped, "(", ")") IN
         [e EXCEPT !.type_header_paren_depth = depth,
                   !.skipping_type_header = ~(Contains(stripped, "{") /\ depth <= 0)]
    ELSE IF looks_like_method_start(stripped) THEN StartDeclaration(e, "method", stripped)
    ELSE IF looks_like_field_start(stripped) THEN StartDeclaration(e, "field", stripped)
    ELSE e

\* lines 401-459: one iteration of the loop over body.splitlines()
extract_line(e, raw_line) ==
    LET sc == strip_comments(raw_line, e.in_block_comment)
        line == sc.text
        stripped == strip(line)
        e0 == [e EXCEPT !.in_block_comment = sc.flag]
        e1 == IF e0.skipping_type_header THEN SkipTypeHeaderLine(e0, stripped)
              ELSE IF e0.pending_kind # NoKind THEN AccumulateLine(e0, stripped)
              ELSE IF e0.brace_depth = 0 /\ stripped # "" /\ ~StartsWithAt(stripped, "@", 0)
              THEN ScanLine(e0, stripped)
              ELSE e0
    IN  [e1 EXCEPT !.brace_depth =
                       e1.brace_depth + count_balance_outside_strings(line, "{", "}")]

(***************************************************************************)
(* parse_file: package, imports and the rendering of the record.           *)
(***************************************************************************)
\* [A-Za-z0-9_\.] and [A-Za-z0-9_\.\*]
PackageChar == WordChar \cup {"."}

ImportChar == PackageChar \cup {"*"}

\* ^\s*<keyword>\s+([chars]+) tried at the line start p
StatementAt(text, p, keyword, chars) ==
    LET q == SkipSet(text, p, Whitespace)
        n == SkipSet(text, q + Len(keyword), Whitespace)
        e == SkipSet(text, n, chars)
    IN  IF StartsWithAt(text, keyword, q) /\ n > q + Len(keyword) /\ e > n
        THEN [start |-> p, end |-> e, kind |-> keyword, name |-> Slice(text, n, e)]
        ELSE NoMatch

\* the matches of the statement pattern from the line start p on, in order
RECURSIVE StatementMatches(_, _, _, _)
StatementMatches(text, p, keyword, chars) ==
    IF p > Len(text) THEN <<>>
    ELSE LET m == StatementAt(text, p, keyword, chars)
             from == IF m = NoMatch THEN p ELSE m.end
             nl == Find(text, "\n", from)
             rest == IF nl = -1 THEN <<>>
                     ELSE StatementMatches(text, nl + 1, keyword, chars)
         IN  IF m = NoMatch THEN rest ELSE <<m.name>> \o rest

\* the characters of the texts in code point order, for sorted(); a TLA+
\* string cannot hold a backquote
CodeOrder ==
    "\t\n !\"#$%&'()*+,-./0123456789:;<=>?@ABCDEFGHIJKLMNOPQRSTUVWXYZ[\\]^_abcdefghijklmnopqrstuvwxyz{|}~"

\* the rank of each character in the order
CodeTable ==
    [ch \in {At(CodeOrder, i) : i \in 0..(Len(CodeOrder) - 1)} |-> Find(CodeOrder, ch, 0)]

CodePoint(ch) ==
    LET Rank(table) == IF ch \in DOMAIN table THEN table[ch] ELSE -1 IN Rank(CodeTable)

\* a < b as Python strings
RECURSIVE CommonPrefix(_, _, _, _)
StringLess(a, b) ==
    LET Differ(shorter, i) ==
            IF i = shorter THEN Len(a) < Len(b)
            ELSE CodePoint(At(a, i)) < CodePoint(At(b, i))
        Prefix(shorter) == Differ(shorter, CommonPrefix(a, b, 0, shorter))
    IN  Prefix(IF Len(a) < Len(b) THEN Len(a) ELSE Len(b))

\* the length of the longest common prefix of a and b, which is at least lo
\* and at most hi
CommonPrefix(a, b, lo, hi) ==
    IF lo >= hi THEN lo
    ELSE LET mid == (lo + hi + 1) \div 2 IN
         IF SubSeq(a, lo + 1, mid) = SubSeq(b, lo + 1, mid)
         THEN CommonPrefix(a, b, mid, hi)
         ELSE CommonPrefix(a, b, lo, mid - 1)

\* sorted(set(items))
sorted_set(items) ==
    LET Insert(prev, x) ==
            LET After[lo \in 0..Len(prev), hi \in 0..Len(prev)] ==
                    IF lo >= hi THEN lo
                    ELSE IF StringLess(x, prev[((lo + hi) \div 2) + 1])
                    THEN After[lo, (lo + hi) \div 2]
                    ELSE After[((lo + hi) \div 2) + 1, hi]
                Place(at) == SubSeq(prev, 1, at) \o <<x>> \o SubSeq(prev, at + 1, Len(prev))
            IN  Place(After[0, Len(prev)])
        Sorted[k \in 0..Len(items)] ==
            IF k = 0 THEN <<>>
            ELSE IF \E j \in 1..(k - 1) : items[j] = items[k] THEN Sorted[k - 1]
            ELSE Insert(Sorted[k - 1], items[k])
    IN  Sorted[Len(items)]

\* sep.join(parts)
RECURSIVE join_with(_, _, _)
join_with(sep, parts, i) ==
    IF i > Len(parts) THEN ""
    ELSE IF i = Len(parts) THEN parts[i]
    ELSE parts[i] \o sep \o join_with(sep, parts, i + 1)

\* the lines as they would be if `types=<none>` were appended unconditionally
record_lines_none_first(head, type_lines, member_lines) ==
    head \o <<"types=<none>">> \o type_lines \o member_lines

\* lines 493-511: the early return of a file without types
record_lines(head, type_lines, member_lines) ==
    IF type_lines = <<>> THEN head \o <<"types=<none>">>
    ELSE head \o type_lines \o member_lines

\* lines 487-511 of parse_file
render(rel_path, text, type_blocks, method_list, field_list) ==
    LET package_match == StatementMatches(text, 0, "package", PackageChar)
        package_name == IF package_match = <<>> THEN "" ELSE package_match[1]
        imports == StatementMatches(text, 0, "import", ImportChar)
        head == <<"file=" \o rel_path,
                  "package=" \o (IF package_name = "" THEN "<default>" ELSE package_name)>>
                \o (IF imports = <<>> THEN <<>>
                    ELSE <<"imports=" \o join_with(",", sorted_set(imports), 1)>>)
        type_lines == [k \in 1..Len(type_blocks) |->
                          "type="
                          \o (IF package_name = "" THEN type_blocks[k].name
                              ELSE package_name \o "." \o type_blocks[k].name)
                          \o "|kind=" \o type_blocks[k].kind
                          \o "|decl=" \o type_blocks[k].header]
        field_lines == IF field_list = <<>> THEN <<>>
                       ELSE <<"fields:">> \o [k \in 1..Len(field_list) |-> "- " \o field_list[k]]
        method_lines == IF method_list = <<>> THEN <<>>
                        ELSE <<"methods:">> \o [k \in 1..Len(method_list) |-> "- " \o method_list[k]]
        lines == record_lines(head, type_lines, field_lines \o method_lines)
    IN  join_with("\n", lines, 1) \o "\n"

(***************************************************************************)
(* The downstream line grammar: signature_metadata of the generator and    *)
(* read_index, parse_type_line and parse_signature of                      *)
(* scripts/signatures_first_pipeline.py.                                   *)
(***************************************************************************)
\* str.split(sep), from offset i
RECURSIVE split_from(_, _, _)
split_from(s, sep, i) ==
    LET at == Find(s, sep, i) IN
    IF at = -1 THEN <<Slice(s, i, Len(s))>>
    ELSE <<Slice(s, i, at)>> \o split_from(s, sep, at + Len(sep))

split(s, sep) == split_from(s, sep, 0)

\* str.split("=", 1)[1].strip(), for a string that holds "="
AfterEquals(s) == strip(Slice(s, Find(s, "=", 0) + 1, Len(s)))

\* str.rstrip()
rstrip(s) == Slice(s, 0, SkipBackSet(s, Len(s) - 1, Whitespace) + 1)

\* the items of a list that satisfy Keep, in order
filter_from(items, i, Keep(_)) ==
    LET kept == {j \in i..Len(items) : Keep(items[j])}
    IN  [k \in 1..Cardinality(kept) |->
            items[CHOOSE j \in kept : Cardinality({h \in kept : h < j}) = k - 1]]

NonBlank(line) == strip(line) # ""

NonEmpty(part) == part # ""

\* list(dict.fromkeys(items))
dict_fromkeys(items) == unique_stable_from(items, 1, <<>>)

NoSection == "None"

\* lines 552-580: the body of the loop over the lines of a signature file
signature_metadata_step(st, raw_line) ==
    LET line == strip(raw_line) IN
    IF line = "" THEN st
    ELSE IF StartsWithAt(line, "file=", 0)
    THEN [st EXCEPT !.source_file = AfterEquals(line), !.section = NoSection]
    ELSE IF StartsWithAt(line, "package=", 0)
    THEN [st EXCEPT !.package = AfterEquals(line), !.section = NoSection]
    ELSE IF StartsWithAt(line, "type=", 0)
    THEN [st EXCEPT !.type_count = st.type_count + 1, !.section = NoSection]
    ELSE IF line = "fields:" THEN [st EXCEPT !.section = "fields"]
    ELSE IF line = "methods:" THEN [st EXCEPT !.section = "methods"]
    ELSE IF StartsWithAt(line, "- ", 0) /\ st.section = "fields"
    THEN [st EXCEPT !.field_count = st.field_count + 1]
    ELSE IF StartsWithAt(line, "- ", 0) /\ st.section = "methods"
    THEN [st EXCEPT !.method_count = st.method_count + 1]
    ELSE [st EXCEPT !.section = NoSection]

RECURSIVE signature_metadata_loop(_, _, _)
signature_metadata_loop(lines, i, st) ==
    IF i > Len(lines) THEN st
    ELSE signature_metadata_loop(lines, i + 1, signature_metadata_step(st, lines[i]))

\* lines 543-589 (the digest of the contents is left out)
signature_metadata(sig_path, contents) ==
    LET st == signature_metadata_loop(splitlines(contents), 1,
                  [source_file |-> "<unknown>", package |-> "<unknown>", type_count |-> 0,
                   field_count |-> 0, method_count |-> 0, section |-> NoSection])
    IN  [sig_path |-> sig_path, source_file |-> st.source_file, package |-> st.package,
         type_count |-> st.type_count,
         symbol_count |-> st.type_count + st.field_count + st.method_count]

\* parts.get(key, default) after the loop of parse_type_line: the last token
\* with this key wins
TypeLinePart(tokens, key, default) ==
    LET hits == {k \in 1..Len(tokens) :
                    /\ Contains(tokens[k], "=")
                    /\ strip(Slice(tokens[k], 0, Find(tokens[k], "=", 0))) = key}
    IN  IF hits = {} THEN default ELSE AfterEquals(tokens[Greatest(hits)])

\* signatures_first_pipeline.py lines 149-160
parse_type_line(raw) ==
    LET tokens == split(raw, "|") IN
    [fqcn |-> TypeLinePart(tokens, "type", "<unknown>"),
     kind |-> TypeLinePart(tokens, "kind", "<unknown>"),
     decl |-> normalize_ws(TypeLinePart(tokens, "decl", ""))]

\* the result of a call that raised
Raised(message) ==
    [error |-> message, source_file |-> "", package |-> "", imports |-> <<>>,
     types |-> <<>>, fields |-> <<>>, methods |-> <<>>]

\* the offset after the run of lines that start with prefix, from offset i
RunEnd(lines, i, prefix) ==
    LET others == {j \in i..(Len(lines) - 1) : ~StartsWithAt(lines[j + 1], prefix, 0)}
    IN  IF others = {} THEN Len(lines) ELSE Least(others)

\* lines[a:b] with the two characters of "- " dropped, whitespace normalised
Entries(lines, a, b) == [k \in 1..(b - a) |-> normalize_ws(Slice(lines[a + k], 2, Len(lines[a + k])))]

\* signatures_first_pipeline.py lines 185-256; i, after_types, after_fields and
\* after_methods are the values of i along the way, each computed once and
\* handed on
parse_signature(contents) ==
    LET Returned(lines, imports, type_list, field_list, method_list) ==
            [error |-> "", source_file |-> AfterEquals(lines[1]),
             package |-> AfterEquals(lines[2]),
             imports |-> sorted_set(dict_fromkeys(imports)),
             types |-> type_list, fields |-> dict_fromkeys(field_list),
             methods |-> dict_fromkeys(method_list)]
        \* lines 228-243: a section header at offset at, and the offset after the
        \* section's entries
        HasSection(lines, at, header) == at < Len(lines) /\ lines[at + 1] = header
        SectionEnd(lines, at, header) ==
            IF HasSection(lines, at, header) THEN RunEnd(lines, at + 1, "- ") ELSE at
        Sections(lines, i, imports, after_types, after_fields, after_methods) ==
            IF Len(lines) < 2 THEN Raised("expected at least file/package headers")
            ELSE IF ~StartsWithAt(lines[1], "file=", 0)
            THEN Raised("first line must be file=")
            ELSE IF ~StartsWithAt(lines[2], "package=", 0)
            THEN Raised("second line must be package=")
            ELSE IF i >= Len(lines) THEN Raised("missing type= or types=<none>")
            ELSE IF lines[i + 1] = "types=<none>"
            THEN IF i + 1 # Len(lines) THEN Raised("types=<none> must be the final section")
                 ELSE Returned(lines, imports, <<>>, <<>>, <<>>)
            ELSE IF after_types = i THEN Raised("missing type= or types=<none>")
            ELSE IF after_methods # Len(lines) THEN Raised("unexpected section ordering")
            ELSE Returned(lines, imports,
                     [k \in 1..(after_types - i) |-> parse_type_line(lines[i + k])],
                     IF after_fields > after_types
                     THEN Entries(lines, after_types + 1, after_fields) ELSE <<>>,
                     IF after_methods > after_fields
                     THEN Entries(lines, after_fields + 1, after_methods) ELSE <<>>)
        AfterFields(lines, i, imports, after_types, after_fields) ==
            Sections(lines, i, imports, after_types, after_fields,
                     SectionEnd(lines, after_fields, "methods:"))
        AfterTypes(lines, i, imports, after_types) ==
            AfterFields(lines, i, imports, after_types,
                        SectionEnd(lines, after_types, "fields:"))
        AfterImports(lines, i, imports) ==
            AfterTypes(lines, i, imports, RunEnd(lines, i, "type="))
        Headers(lines, has_imports) ==
            AfterImports(lines, IF has_imports THEN 3 ELSE 2,
                IF has_imports
                THEN filter_from(split(AfterEquals(lines[3]), ","), 1, NonEmpty)
                ELSE <<>>)
        Lines(lines) == Headers(lines, 2 < Len(lines) /\ StartsWithAt(lines[3], "imports=", 0))
        Stripped(nonblank) == Lines([k \in 1..Len(nonblank) |-> rstrip(nonblank[k])])
    IN  Stripped(filter_from(splitlines(contents), 1, NonBlank))

\* sorted(items) under the order Less; the sort is stable: each item is
\* placed after the items placed before it that are not greater
sorted_by(items, Less(_, _)) ==
    LET Insert(prev, x) ==
            LET After[lo \in 0..Len(prev), hi \in 0..Len(prev)] ==
                    IF lo >= hi THEN lo
                    ELSE IF Less(x, prev[((lo + hi) \div 2) + 1])
                    THEN After[lo, (lo + hi) \div 2]
                    ELSE After[((lo + hi) \div 2) + 1, hi]
                Place(at) == SubSeq(prev, 1, at) \o <<x>> \o SubSeq(prev, at + 1, Len(prev))
            IN  Place(After[0, Len(prev)])
        Sorted[k \in 0..Len(items)] ==
            IF k = 0 THEN <<>> ELSE Insert(Sorted[k - 1], items[k])
    IN  Sorted[Len(items)]

\* sorted(items) of a list of strings
sorted(items) == sorted_by(items, StringLess)

\* a < b as lists of strings
RECURSIVE PartsLess(_, _, _)
PartsLess(a, b, i) ==
    IF i > Len(a) THEN i <= Len(b)
    ELSE IF i > Len(b) THEN FALSE
    ELSE IF a[i] # b[i] THEN StringLess(a[i], b[i])
    ELSE PartsLess(a, b, i + 1)

\* a < b as pathlib paths: by their components
PathLess(a, b) == PartsLess(split(a, "/"), split(b, "/"), 1)

\* the signature files in the output tree after the files up to file n were
\* written (write_signature_file, lines 528-532): the last text written to a
\* path is its content
sig_paths(n) == dict_fromkeys([k \in 1..n |-> files[k].path \o ".sig"])

sig_contents(n, sig_path) ==
    records[Greatest({k \in 1..n : files[k].path \o ".sig" = sig_path})]

\* lines 593-600 of build_indexes
index_entries(n) ==
    filter_from(sorted_by(sig_paths(n), PathLess), 1, LAMBDA p : p # "INDEX.sig")

\* signatures_first_pipeline.py lines 163-177
read_index(index_text) ==
    LET Failed(message) == [error |-> message, entries |-> <<>>]
        Checked(entries, in_order) ==
            IF \E k \in 1..Len(entries) : Contains(entries[k], "|")
            THEN Failed("INDEX.sig must be path-only; metadata suffixes are not allowed")
            ELSE IF entries # in_order
            THEN Failed("INDEX.sig must be lexicographically sorted")
            ELSE IF Len(entries) # Cardinality({entries[k] : k \in 1..Len(entries)})
            THEN Failed("INDEX.sig must not contain duplicate paths")
            ELSE IF \E k \in 1..Len(entries) : entries[k] = "INDEX.sig"
            THEN Failed("INDEX.sig must not include itself")
            ELSE [error |-> "", entries |-> entries]
        Entry(entries) == Checked(entries, sorted(entries))
        Stripped(nonblank) == Entry([k \in 1..Len(nonblank) |-> strip(nonblank[k])])
    IN  Stripped(filter_from(splitlines(index_text), 1, NonBlank))
\* signatures_first_pipeline.py lines 259-263: the first call that raises ends
\* the load
load_signatures(index_text, n) ==
    LET Loaded(index, parsed, failed) ==
            IF index.error # "" THEN [error |-> index.error, records |-> <<>>]
            ELSE IF failed # {} THEN [error |-> parsed[Least(failed)].error, records |-> <<>>]
            ELSE [error |-> "", records |-> parsed]
        Parsed(index, parsed) ==
            Loaded(index, parsed, {k \in 1..Len(parsed) : parsed[k].error # ""})
        Indexed(index) ==
            Parsed(index, [k \in 1..Len(index.entries) |->
                              parse_signature(sig_contents(n, index.entries[k]))])
    IN  Indexed(read_index(index_text))

(***************************************************************************)
(* The run: parse_file on each file of the run, statement by statement.    *)
(***************************************************************************)
text == files[file_idx].text

type_block == types[type_idx]

UnresolvedNever(t) == FALSE

UnresolvedOpenOnly(t) == t.open_brace = None

\* line 469
Unresolved(t) == t.open_brace = None \/ t.close_brace = None

\* the history after the loop body ran on line k and took the locals from e to e2
Recorded(h, e, e2, k) ==
    LET first == IF e.pending_kind # NoKind THEN h.pending_from ELSE k
        entry(list, entries) ==
            [list |-> list, text |-> entries[Len(entries)], first |-> first, last |-> k]
    IN  [pending_from |-> IF e2.pending_kind = NoKind THEN 0 ELSE first,
         origins |->
            IF Len(e2.fields) > Len(e.fields)
            THEN Append(h.origins, entry("fields", e2.fields))
            ELSE IF Len(e2.methods) > Len(e.methods)
            THEN Append(h.origins, entry("methods", e2.methods))
            ELSE h.origins]

NoTree == [exists |-> FALSE, index |-> "", files |-> <<>>]

EmptyCatalog ==
    [type_symbols |-> {}, method_symbols |-> {}, field_symbols |-> {},
     methods_by_type |-> {}, method_names_by_type |-> {}]

NoReport == [status |-> "<none>"]

NoFrameOfMain ==
    [ci_mode |-> "", links |-> <<>>, schema_mode |-> "", claims |-> <<>>,
     owner_routing |-> <<>>, claim_errors |-> <<>>, signatures_dir |-> FALSE,
     refresh_attempted |-> FALSE, refresh_succeeded |-> FALSE, refresh_details |-> "",
     catalog |-> EmptyCatalog, resolved_links |-> <<>>, missing_links |-> <<>>,
     claim_evaluations |-> <<>>, claim_doc_errors |-> <<>>]

ValidatorIdle ==
    /\ args = [ci_mode |-> "warn", strict |-> FALSE, require_tests |-> TRUE,
               auto_refresh |-> FALSE, claims_file |-> FALSE]
    /\ repo = [links_file |-> [state |-> "absent", root |-> <<>>],
               claims_file |-> [state |-> "absent", root |-> <<>>],
               signatures |-> NoTree, generated |-> NoTree,
               docs |-> <<>>, tests |-> <<>>]
    /\ vj_pc = "idle"
    /\ vj = NoFrameOfMain
    /\ report = NoReport
    /\ exit_code = None

TreeIdle ==
    /\ src_tree = {}
    /\ out_dir = "signatures"
    /\ out_tree = <<>>
    /\ tree_pc = "idle"

IndexIdle ==
    /\ TreeIdle
    /\ index_sig = ""
    /\ metadata = <<>>
    /\ loaded = [error |-> "", records |-> <<>>]

RunIdle ==
    /\ files = <<>>
    /\ file_idx = 0
    /\ pc = "idle"
    /\ types = <<>>
    /\ type_idx = 0
    /\ fields = <<>>
    /\ methods = <<>>
    /\ body_lines = <<>>
    /\ line_idx = 0
    /\ ex = NoFrame
    /\ records = <<>>
    /\ hist = NoHistory

\* line 465-467
ParseTypes ==
    /\ pc = "parse_types"
    /\ types' = parse_types(text)
    /\ type_idx' = 1
    /\ fields' = <<>>
    /\ methods' = <<>>
    /\ pc' = "for_type_block"
    /\ UNCHANGED <<scVars, ixVars, vjVars, files, file_idx, body_lines, line_idx, ex, records, hist>>

\* lines 468-470
SkipTypeBlock ==
    /\ pc = "for_type_block"
    /\ type_idx <= Len(types)
    /\ Unresolved(type_block)
    /\ type_idx' = type_idx + 1
    /\ UNCHANGED <<scVars, ixVars, vjVars, files, file_idx, pc, types, fields, methods,
                   body_lines, line_idx, ex, records, hist>>

\* lines 471-472 and 390-400: the body is sliced (a None operand of the sum
\* raises) and extract_members_from_body starts
BeginExtract ==
    /\ pc = "for_type_block"
    /\ type_idx <= Len(types)
    /\ ~Unresolved(type_block)
    /\ IF type_block.open_brace = None
       THEN /\ pc' = "raised"
            /\ UNCHANGED <<body_lines, line_idx, ex, hist>>
       ELSE /\ body_lines' = splitlines(
                   Slice(text, type_block.open_brace + 1,
                         IF type_block.close_brace = None THEN Len(text)
                         ELSE type_block.close_brace))
            /\ line_idx' = 1
            /\ ex' = ExtractorLocals
            /\ hist' = NoHistory
            /\ pc' = "for_raw_line"
    /\ UNCHANGED <<scVars, ixVars, vjVars, files, file_idx, types, type_idx, fields, methods, records>>

\* lines 400-459
ExtractLine ==
    /\ pc = "for_raw_line"
    /\ line_idx <= Len(body_lines)
    /\ ex' = extract_line(ex, body_lines[line_idx])
    /\ hist' = Recorded(hist, ex, ex', line_idx)
    /\ line_idx' = line_idx + 1
    /\ UNCHANGED <<scVars, ixVars, vjVars, files, file_idx, pc, types, type_idx, fields, methods,
                   body_lines, records>>

\* lines 461 and 473-474
EndExtract ==
    /\ pc = "for_raw_line"
    /\ line_idx > Len(body_lines)
    /\ fields' = fields \o unique_stable(ex.fields)
    /\ methods' = methods \o unique_stable(ex.methods)
    /\ type_idx' = type_idx + 1
    /\ pc' = "for_type_block"
    /\ UNCHANGED <<scVars, ixVars, vjVars, files, file_idx, types, body_lines, line_idx, ex, records, hist>>

\* line 475 and lines 487-511
Render ==
    /\ pc = "for_type_block"
    /\ type_idx > Len(types)
    /\ records' = Append(records, render(files[file_idx].path, text, types, methods, fields))
    /\ pc' = "returned"
    /\ UNCHANGED <<scVars, ixVars, vjVars, files, file_idx, types, type_idx, fields, methods,
                   body_lines, line_idx, ex, hist>>

\* lines 645-646 of main: the next file of the run
NextFile ==
    /\ pc = "returned"
    /\ file_idx < Len(files)
    /\ file_idx' = file_idx + 1
    /\ pc' = "parse_types"
    /\ UNCHANGED <<scVars, ixVars, vjVars, files, types, type_idx, fields, methods,
                   body_lines, line_idx, ex, records, hist>>

\* lines 648 and 592-603 of the generator: INDEX.sig and the metadata of every
\* signature file, once the last file is written
BuildIndexes ==
    /\ pc = "returned"
    /\ file_idx = Len(files)
    /\ index_sig' = (IF index_entries(Len(files)) = <<>> THEN ""
                     ELSE join_with("\n", index_entries(Len(files)), 1) \o "\n")
    /\ metadata' = [k \in 1..Len(index_entries(Len(files))) |->
                       signature_metadata(index_entries(Len(files))[k],
                           sig_contents(Len(files), index_entries(Len(files))[k]))]
    /\ pc' = "indexed"
    /\ UNCHANGED <<scVars, vjVars, loaded, treeVars, files, file_idx, types, type_idx, fields, methods,
                   body_lines, line_idx, ex, records, hist>>

\* signatures_first_pipeline.py line 930: the pipeline loads the tree
LoadSignatures ==
    /\ pc = "indexed"
    /\ loaded' = load_signatures(index_sig, Len(files))
    /\ pc' = "loaded"
    /\ UNCHANGED <<scVars, vjVars, index_sig, metadata, treeVars, files, file_idx, types, type_idx, fields,
                   methods, body_lines, line_idx, ex, records, hist>>

(***************************************************************************)
(* Specification Spec: parse_file on one file whose text is up to          *)
(* MaxFragments fragments of source, one per line group.                   *)
(***************************************************************************)
Fragments ==
    {"class A {",
     "}",
     "val x = 1",
     "class B {\nval x = 1\n}",
     "public void\ndoThing(int a,\nint b) {\n}",
     "public class Foo { public int x; public void bar() { if (x > 0) { return; } } }",
     "public class Bar {",
     "@S data class I(\nval y: Int,\n)",
     "fun foo(): Int",
     "/* {",
     "val s = \"}",
     "data class P(val a: Int)"}

RECURSIVE TextsOf(_)
TextsOf(n) ==
    IF n = 1 THEN Fragments
    ELSE LET shorter == TextsOf(n - 1)
         IN  shorter \cup {t \o "\n" \o f : t \in shorter, f \in Fragments}

SourcePath == "src/A.kt"

BalanceIdle ==
    /\ cb_line = ""
    /\ cb_open = "("
    /\ cb_close = ")"
    /\ cb_pc = "idle"
    /\ cb_balance = 0

StripIdle ==
    /\ BalanceIdle
    /\ sc_line = ""
    /\ sc_flag = FALSE
    /\ sc_pc = "idle"
    /\ sc_out = [text |-> "", flag |-> FALSE]
    /\ sc_again = [text |-> "", flag |-> FALSE]

Init ==
    /\ StripIdle
    /\ IndexIdle
    /\ ValidatorIdle
    /\ files \in {<<[path |-> SourcePath, text |-> t]>> : t \in TextsOf(MaxFragments)}
    /\ file_idx = 1
    /\ pc = "parse_types"
    /\ types = <<>>
    /\ type_idx = 0
    /\ fields = <<>>
    /\ methods = <<>>
    /\ body_lines = <<>>
    /\ line_idx = 0
    /\ ex = NoFrame
    /\ records = <<>>
    /\ hist = NoHistory

Next ==
    \/ ParseTypes
    \/ SkipTypeBlock
    \/ BeginExtract
    \/ ExtractLine
    \/ EndExtract
    \/ Render

Spec == Init /\ [][Next]_vars

\* parse_file is between its first statement and its return or raise; a step
\* of Next is enabled in exactly these states (the guards of the actions at
\* each pc cover every case) and every step changes pc, type_idx or line_idx
Running == pc \in {"parse_types", "for_type_block", "for_raw_line"}

\* the run is scheduled until parse_file has returned: WF_vars(Next) with the
\* enabling condition of Next written out
FairSpec == Init /\ [][Next]_vars /\ ([]<>(~Running) \/ []<><<Next>>_vars)

(***************************************************************************)
(* Specification SpecRuns: one run of the generator over three files, the  *)
(* third with the path and text of the first.                              *)
(***************************************************************************)
RunTexts ==
    {"package p\nimport b.C\nimport a.D\nimport b.C\nclass A {\nval x = 1\n}",
     "class A {\n/* {\n}",
     "class A {\n/* x\n}",
     "class B {\nfun foo(): Int\n}",
     "class A {\ndata class P(val a: Int)\n}",
     "class A {\nval s = \"}\n}\nclass B {\nval x = 1\n}",
     "val x = 1",
     "class A {\nfun f() { return 1 }\nval y = 2\n}",
     "annotation class X\nenum class E {\n}\n@interface Y {\n}",
     "import b.C\nimport a.D\nval x = 1",
     "class A {\n/* x\nval a = 1\ny */ val b = 2\n}",
     "class A {\nval x = 1\n}\nclass B {\nval x = 1\nfun f()\n}"}

InitRuns ==
    /\ StripIdle
    /\ IndexIdle
    /\ ValidatorIdle
    /\ files \in {<<[path |-> SourcePath, text |-> a],
                    [path |-> "src/B.kt", text |-> b],
                    [path |-> SourcePath, text |-> a]>> : a \in RunTexts, b \in RunTexts}
    /\ file_idx = 1
    /\ pc = "parse_types"
    /\ types = <<>>
    /\ type_idx = 0
    /\ fields = <<>>
    /\ methods = <<>>
    /\ body_lines = <<>>
    /\ line_idx = 0
    /\ ex = NoFrame
    /\ records = <<>>
    /\ hist = NoHistory

NextRuns ==
    \/ ParseTypes
    \/ SkipTypeBlock
    \/ BeginExtract
    \/ ExtractLine
    \/ EndExtract
    \/ Render
    \/ NextFile
    \/ BuildIndexes
    \/ LoadSignatures

SpecRuns == InitRuns /\ [][NextRuns]_vars

(***************************************************************************)
(* C1: scanning is deterministic: the record of a file depends only on its *)
(* text and path, not on the files processed before it.  In a run over the *)
(* files a, b, a the third record equals the first.                        *)
(***************************************************************************)
C1_RunsAgree ==
    Len(records) = 3 => records[3] = records[1]

\* the file in between left a block comment open, a declaration pending or a
\* type header being skipped, and the repeated file has members
C1_Witness ==
    /\ Len(records) = 3
    /\ records[2] # records[1]
    /\ Contains(files[2].text, "/* x")
    /\ Contains(records[3], "fields:")
    /\ Contains(records[3], "imports=a.D,b.C")

(***************************************************************************)
(* C2: the scanner is total: on every text, malformed or not,              *)
(* parse_types_and_members returns (nothing raises, every loop ends).      *)
(***************************************************************************)
C2_ScannerTotal == <>(pc = "returned")

\* returned on a text with an unterminated block comment and an unresolved body
C2_Witness ==
    /\ pc = "returned"
    /\ Contains(text, "/* {")
    /\ \E k \in 1..Len(types) : types[k].open_brace # None /\ types[k].close_brace = None

(***************************************************************************)
(* C3: a nested type contributes no entry to the enclosing type: no entry  *)
(* is built from a line of a nested type declaration (header, constructor  *)
(* parameter lines, body), whatever annotation or modifiers precede the    *)
(* header.  Stated for bodies without comments and literals, where the     *)
(* lines of a nested declaration are those from a header line at brace     *)
(* depth zero to the line that closes its parentheses and braces.          *)
(***************************************************************************)
RECURSIVE BalanceOver(_, _, _, _, _)
BalanceOver(lines, a, b, open_char, close_char) ==
    IF a > b THEN 0
    ELSE count_balance_outside_strings(lines[a], open_char, close_char)
         + BalanceOver(lines, a + 1, b, open_char, close_char)

\* the line without its leading annotations (@Name and blanks)
RECURSIVE DropAnnotations(_)
DropAnnotations(line) ==
    IF StartsWithAt(line, "@", 0) /\ ~StartsWithAt(line, "@interface", 0)
    THEN LET rest == SkipSet(line, SkipSet(line, 1, WordChar), Whitespace)
         IN  IF rest >= Len(line) THEN "" ELSE DropAnnotations(Slice(line, rest, Len(line)))
    ELSE line

NestedHeaderAt(lines, k) ==
    /\ BalanceOver(lines, 1, k - 1, "{", "}") = 0
    /\ TYPE_START(DropAnnotations(strip(lines[k])))

NestedDeclarationEnd(lines, k) ==
    LET ends == {j \in k..Len(lines) :
                    /\ BalanceOver(lines, k, j, "(", ")") <= 0
                    /\ BalanceOver(lines, k, j, "{", "}") <= 0}
    IN  IF ends = {} THEN Len(lines) ELSE Least(ends)

NestedDeclarationLines(lines) ==
    UNION {k..NestedDeclarationEnd(lines, k) : k \in {j \in 1..Len(lines) : NestedHeaderAt(lines, j)}}

PlainBody(lines) ==
    \A k \in 1..Len(lines) :
        ~Contains(lines[k], "/") /\ ~Contains(lines[k], "\"") /\ ~Contains(lines[k], "'")

C3_NestedTypeContributesNothing ==
    (pc = "for_raw_line" /\ PlainBody(body_lines))
    => \A n \in 1..Len(hist.origins) :
           (hist.origins[n].first..hist.origins[n].last)
           \cap NestedDeclarationLines(body_lines) = {}

(***************************************************************************)
(* C4: the fields list and the methods list of a file's record hold no     *)
(* entry twice, also when the file declares several types.                 *)
(***************************************************************************)
NoDuplicates(items) ==
    \A i, j \in 1..Len(items) : items[i] = items[j] => i = j

C4_NoDuplicateEntries ==
    pc = "returned" => NoDuplicates(fields) /\ NoDuplicates(methods)

(***************************************************************************)
(* C5: a type whose whole body stands on the header's line: the scan of    *)
(* `public class Foo { public int x; public void bar() { if (x > 0) {      *)
(* return; } } }` yields one type, class Foo, fields = [public int x] and   *)
(* methods = [public void bar()].                                          *)
(***************************************************************************)
OneLineType ==
    "public class Foo { public int x; public void bar() { if (x > 0) { return; } } }"

C5_OneLineTypeMembers ==
    (pc = "returned" /\ text = OneLineType)
    => /\ Len(types) = 1
       /\ types[1].kind = "class"
       /\ types[1].name = "Foo"
       /\ fields = <<"public int x">>
       /\ methods = <<"public void bar()">>

(***************************************************************************)
(* C6: a method header split over the three lines `public void`,           *)
(* `doThing(int a,` and `int b) {` of a type body yields the one method    *)
(* entry `public void doThing(int a, int b)`.                              *)
(***************************************************************************)
SplitHeaderType == "class A {\npublic void\ndoThing(int a,\nint b) {\n}\n}"

C6_SplitHeaderReassembled ==
    (pc = "returned" /\ text = SplitHeaderType)
    => methods = <<"public void doThing(int a, int b)">>

(***************************************************************************)
(* C7: a type whose body is unresolved is still recorded with its kind and *)
(* name and contributes no entries: members are extracted only for a       *)
(* TypeBlock that has both offsets, so `public class Bar {` at the end of  *)
(* the file yields class Bar and no field or method.                       *)
(***************************************************************************)
C7_UnresolvedBodyHeaderOnly ==
    /\ pc = "for_raw_line"
       => type_block.open_brace # None /\ type_block.close_brace # None
    /\ (pc = "returned"
        /\ \A k \in 1..Len(types) :
               types[k].open_brace = None \/ types[k].close_brace = None)
       => fields = <<>> /\ methods = <<>>
    /\ (pc = "returned" /\ StartsWithAt(text, "public class Bar {", 0))
       => /\ types[1].kind = "class"
          /\ types[1].name = "Bar"
          /\ types[1].open_brace = 17

\* `public class Bar {` left open, followed by a field declaration
C7_Witness ==
    /\ pc = "returned"
    /\ StartsWithAt(text, "public class Bar {\nval x = 1", 0)
    /\ types[1].open_brace # None
    /\ types[1].close_brace = None
    /\ fields = <<>>

(***************************************************************************)
(* C8: every TypeBlock with both offsets has close_brace > open_brace, an  *)
(* opening brace at open_brace and a closing brace at close_brace, on      *)
(* every text.                                                             *)
(***************************************************************************)
C8_CloseAfterOpen ==
    \A k \in 1..Len(types) :
        (types[k].open_brace # None /\ types[k].close_brace # None)
        => /\ types[k].close_brace > types[k].open_brace
           /\ At(text, types[k].open_brace) = "{"
           /\ At(text, types[k].close_brace) = "}"

\* a text with unbalanced braces: one body resolved, a later one left open
C8_Witness ==
    /\ Len(types) >= 2
    /\ types[1].open_brace # None /\ types[1].close_brace # None
    /\ \E k \in 2..Len(types) : types[k].open_brace # None /\ types[k].close_brace = None

(***************************************************************************)
(* Specification SpecStrip: strip_comments on every line over a small      *)
(* alphabet, with either incoming flag, then on its own output.            *)
(***************************************************************************)
StripAlphabet == {"a", "/", "*", "\"", "'"}

RECURSIVE StringsUpTo(_, _)
StringsUpTo(alphabet, n) ==
    IF n = 0 THEN {""}
    ELSE LET shorter == StringsUpTo(alphabet, n - 1)
         IN  shorter \cup {s \o c : s \in shorter, c \in alphabet}

StripLines == StringsUpTo(StripAlphabet, MaxStripLen)

NoResult == [text |-> "", flag |-> FALSE]

InitStrip ==
    /\ sc_line \in StripLines
    /\ sc_flag \in BOOLEAN
    /\ sc_pc = "in"
    /\ sc_out = NoResult
    /\ sc_again = NoResult
    /\ BalanceIdle
    /\ RunIdle
    /\ IndexIdle
    /\ ValidatorIdle

Strip ==
    /\ sc_pc = "in"
    /\ sc_out' = strip_comments(sc_line, sc_flag)
    /\ sc_pc' = "stripped"
    /\ UNCHANGED <<sc_line, sc_flag, sc_again, cbVars, runVars, ixVars, vjVars>>

Restrip ==
    /\ sc_pc = "stripped"
    /\ sc_again' = strip_comments(sc_out.text, FALSE)
    /\ sc_pc' = "restripped"
    /\ UNCHANGED <<sc_line, sc_flag, sc_out, cbVars, runVars, ixVars, vjVars>>

NextStrip == Strip \/ Restrip

SpecStrip == InitStrip /\ [][NextStrip]_vars

(***************************************************************************)
(* C9: comment stripping is idempotent: the stripped line, stripped again  *)
(* with the flag false, comes back unchanged and opens no comment.         *)
(***************************************************************************)
C9_StripIdempotent ==
    sc_pc = "restripped" => sc_again = [text |-> sc_out.text, flag |-> FALSE]

\* a block comment was removed from the middle of a line and text remains
C9_Witness ==
    /\ sc_pc = "restripped"
    /\ Contains(sc_line, "/*")
    /\ sc_out.text # ""
    /\ sc_out.text # sc_line
    /\ sc_again.text = sc_out.text

(***************************************************************************)
(* C10: a comment marker inside a quoted literal is not a comment marker:  *)
(* when every // and /* of the line starts inside a literal, the line      *)
(* comes back whole and the outgoing flag stays false.                     *)
(***************************************************************************)
MarkerAt(line, i) == StartsWithAt(line, "//", i) \/ StartsWithAt(line, "/*", i)

C10_MarkersInLiteralsIgnored ==
    (/\ sc_pc # "in"
     /\ ~sc_flag
     /\ \A i \in 0..(Len(sc_line) - 1) :
            MarkerAt(sc_line, i) => InsideLiteral(sc_line, i))
    => sc_out = [text |-> sc_line, flag |-> FALSE]

(***************************************************************************)
(* C11: every emitted field or method entry is free of body and            *)
(* initializer text: it holds no `{` and no `;`, no `=` outside            *)
(* parentheses, angle brackets and literals, and no trailing comma, also   *)
(* when the body is written and closed on the header's line.               *)
(***************************************************************************)
WithoutBody(entry) ==
    /\ ~Contains(entry, "{")
    /\ ~Contains(entry, ";")
    /\ truncate_top_level_equals(entry) = entry
    /\ ~EndsWith(entry, ",")

C11_EntriesWithoutBody ==
    /\ \A k \in 1..Len(fields) : WithoutBody(fields[k])
    /\ \A k \in 1..Len(methods) : WithoutBody(methods[k])

(***************************************************************************)
(* C12: the kind of a TypeBlock is the canonical kind of the declaration   *)
(* form: one of class, interface, object, record, enum, annotation, with   *)
(* `enum class` recorded as enum and `annotation class` and `@interface`   *)
(* as annotation.                                                          *)
(***************************************************************************)
CanonicalKinds == {"class", "interface", "object", "record", "enum", "annotation"}

\* the header of the TypeBlock declares the form `word class`
DeclaresTwoWord(t, word) ==
    \/ StartsWithAt(t.header, word \o " class ", 0)
    \/ Contains(t.header, " " \o word \o " class ")

C12_CanonicalKind ==
    \A k \in 1..Len(types) :
        /\ types[k].kind \in CanonicalKinds
        /\ DeclaresTwoWord(types[k], "enum") => types[k].kind = "enum"
        /\ DeclaresTwoWord(types[k], "annotation") => types[k].kind = "annotation"
        /\ Contains(types[k].header, "@interface ") => types[k].kind = "annotation"

(***************************************************************************)
(* C13: the record of a file without a type header is the file= line, the  *)
(* package= line, an optional imports= line and the line `types=<none>`,   *)
(* and nothing else; a record with a type= line has no `types=<none>`.     *)
(***************************************************************************)
last_record == splitlines(records[Len(records)])

HasLine(lines, prefix) == \E k \in 1..Len(lines) : StartsWithAt(lines[k], prefix, 0)

C13_NoTypesRecord ==
    pc = "returned"
    => IF types = <<>>
       THEN /\ Len(last_record) \in {3, 4}
            /\ StartsWithAt(last_record[1], "file=", 0)
            /\ StartsWithAt(last_record[2], "package=", 0)
            /\ Len(last_record) = 4 => StartsWithAt(last_record[3], "imports=", 0)
            /\ last_record[Len(last_record)] = "types=<none>"
            /\ ~HasLine(last_record, "type=")
            /\ ~HasLine(last_record, "fields:")
            /\ ~HasLine(last_record, "methods:")
       ELSE /\ HasLine(last_record, "type=")
            /\ ~HasLine(last_record, "types=<none>")

\* a file with imports and a declaration but no type, and before it in the
\* run a file with a type
C13_Witness ==
    /\ pc = "returned"
    /\ Len(records) = 2
    /\ types = <<>>
    /\ Len(last_record) = 4
    /\ HasLine(splitlines(records[1]), "type=")

(***************************************************************************)
(* C19: a block comment that opens on a line and is not closed on it       *)
(* discards only the rest of the line: when the first marker of the line   *)
(* is a block comment opening that no closing marker follows, the text in  *)
(* front of it comes back with the flag true.                              *)
(***************************************************************************)
FirstMarker(line) ==
    LET markers == {i \in 0..(Len(line) - 1) : MarkerAt(line, i)}
    IN  IF markers = {} THEN None ELSE Least(markers)

OpensUnclosed(line) ==
    /\ FirstMarker(line) # None
    /\ StartsWithAt(line, "/*", FirstMarker(line))
    /\ ~StartsWithAt(line, "//", FirstMarker(line))
    /\ Find(line, "*/", FirstMarker(line) + 2) = -1

C19_TextBeforeOpenCommentKept ==
    (sc_pc # "in" /\ ~sc_flag /\ OpensUnclosed(sc_line))
    => sc_out = [text |-> Slice(sc_line, 0, FirstMarker(sc_line)), flag |-> TRUE]

(***************************************************************************)
(* C20: an unterminated block comment propagates from line to line of a    *)
(* body: with the flag threaded in, a line without the closing marker      *)
(* yields nothing and leaves the flag true, and the first line with the    *)
(* closing marker is scanned as the text after the marker is with the      *)
(* flag false.                                                             *)
(***************************************************************************)
C20_OpenCommentPropagates ==
    [][(pc = "for_raw_line" /\ line_idx' = line_idx + 1 /\ ex.in_block_comment)
       => LET raw_line == body_lines[line_idx]
              end == Find(raw_line, "*/", 0)
          IN  IF end = -1 THEN ex' = ex
              ELSE ex' = extract_line([ex EXCEPT !.in_block_comment = FALSE],
                                      Slice(raw_line, end + 2, Len(raw_line)))]_vars

\* a comment opened on the second line of the body, ran over the third and
\* was closed on the fourth, whose remainder declared a field
C20_Witness ==
    /\ pc = "for_raw_line"
    /\ line_idx = 5
    /\ body_lines[2] = "/* x"
    /\ body_lines[3] = "val a = 1"
    /\ ~ex.in_block_comment
    /\ ex.fields = <<"val b">>


(***************************************************************************)
(* C14: round trip of counts: the record rendered for a file, read back by *)
(* signature_metadata and by parse_signature, holds as many types, fields  *)
(* and methods as parse_file rendered, and the pipeline accepts it.        *)
(* Stated for the file the run parsed last, once the tree is loaded.       *)
(***************************************************************************)
EntryOf(sig_path) ==
    CHOOSE k \in 1..Len(metadata) : metadata[k].sig_path = sig_path

C14_CountsRoundTrip ==
    pc = "loaded" =>
        LET k == EntryOf(files[file_idx].path \o ".sig") IN
        /\ loaded.error = ""
        /\ Len(loaded.records[k].types) = Len(types)
        /\ Len(loaded.records[k].fields) = Len(fields)
        /\ Len(loaded.records[k].methods) = Len(methods)
        /\ metadata[k].type_count = Len(types)
        /\ metadata[k].symbol_count = Len(types) + Len(fields) + Len(methods)

(***************************************************************************)
(* The journey validator:                                                  *)
(* .agents/skills/value-journey-signature-linker/scripts/                  *)
(* validate_journey_signature_links.py.  A JSON object is a record of the  *)
(* keys it holds, a JSON array a sequence; the values of the modelled      *)
(* files are strings, booleans, arrays and objects.                        *)
(***************************************************************************)
DECISION_TYPES == {"adopt", "migrate", "operate"}

CLAIM_STATUSES == {"supported", "at_risk", "missing"}

REF_KINDS == {"type", "method", "field"}

DOC_SCOPES == {"value_journey", "theory", "learn"}

CLAIM_KINDS == {"guarantee", "mechanism", "boundary", "failure_mode", "performance"}

\* dict.get(key, default)
Get(obj, key, default) == IF key \in DOMAIN obj THEN obj[key] ELSE default

\* every character of s[a:b] is in set
AllIn(s, a, b, set) == \A i \in a..(b - 1) : At(s, i) \in set

\* JOURNEY_ID_PATTERN.fullmatch(s): ^[A-Z]{2,}-[0-9]{3}$
JOURNEY_ID_PATTERN(s) ==
    LET n == Len(s) IN
    /\ n >= 6
    /\ AllIn(s, 0, n - 4, Upper)
    /\ At(s, n - 4) = "-"
    /\ AllIn(s, n - 3, n, Digit)

\* the end of a match of [A-Z]{2,}-[0-9]{3}-C[0-9]+ that starts at p, or None;
\* both runs are greedy and the word boundary after the match leaves the
\* second no shorter alternative
ClaimIdEnd(s, p) ==
    LET Match(dash, last) ==
            IF /\ dash >= p + 2
               /\ StartsWithAt(s, "-", dash)
               /\ dash + 4 <= Len(s)
               /\ AllIn(s, dash + 1, dash + 4, Digit)
               /\ StartsWithAt(s, "-C", dash + 4)
               /\ last > dash + 6
               /\ (last = Len(s) \/ At(s, last) \notin WordChar)
            THEN last ELSE None
        Letters(dash) == Match(dash, SkipSet(s, dash + 6, Digit))
    IN  Letters(SkipSet(s, p, Upper))

\* CLAIM_ID_PATTERN.fullmatch(s): \b[A-Z]{2,}-[0-9]{3}-C[0-9]+\b
CLAIM_ID_PATTERN(s) == s # "" /\ ClaimIdEnd(s, 0) = Len(s)

UpperCase == "ABCDEFGHIJKLMNOPQRSTUVWXYZ"

LowerCase == "abcdefghijklmnopqrstuvwxyz"

\* str.lower()
RECURSIVE lower_from(_, _)
lower_from(s, i) ==
    IF i >= Len(s) THEN ""
    ELSE LET at == Find(UpperCase, At(s, i), 0)
         IN  (IF at = -1 THEN At(s, i) ELSE At(LowerCase, at)) \o lower_from(s, i + 1)

lower(s) == lower_from(s, 0)

\* lines 207-224 of parse_claims: the loop over the signature entries
RECURSIVE parse_claim_signatures(_, _, _, _)
parse_claim_signatures(base, signatures_raw, sig_idx, st) ==
    IF sig_idx >= Len(signatures_raw) THEN st
    ELSE LET Entry(sig_base, kind, signature) ==
                 parse_claim_signatures(base, signatures_raw, sig_idx + 1,
                     [signatures |->
                         st.signatures
                         \o (IF kind \in REF_KINDS /\ signature # ""
                             THEN <<[kind |-> kind, signature |-> signature]>> ELSE <<>>),
                      errors |->
                         st.errors
                         \o (IF kind \notin REF_KINDS
                             THEN <<sig_base
                                    \o ": kind must be one of ['field', 'method', 'type']">>
                             ELSE <<>>)
                         \o (IF signature = ""
                             THEN <<sig_base \o ": signature must be non-empty">>
                             ELSE <<>>)])
         IN  Entry(base \o ".signatures[" \o ToString(sig_idx) \o "]",
                   lower(strip(Get(signatures_raw[sig_idx + 1], "kind", ""))),
                   strip(Get(signatures_raw[sig_idx + 1], "signature", "")))

\* lines 226-240 and 242-252 of parse_claims: a list of strings, each stripped,
\* the empty ones reported
RECURSIVE parse_claim_strings(_, _, _, _, _)
parse_claim_strings(base, what, raw, i, st) ==
    IF i >= Len(raw) THEN st
    ELSE LET value == strip(raw[i + 1]) IN
         parse_claim_strings(base, what, raw, i + 1,
             IF value = ""
             THEN [st EXCEPT !.errors = Append(@, base \o "[" \o ToString(i) \o "]: " \o what)]
             ELSE [st EXCEPT !.values = Append(@, value)])

NoStrings == [values |-> <<>>, errors |-> <<>>]

duplicate_claim_id_never(claim_id, claim_ids_seen) == FALSE

\* line 202
duplicate_claim_id(claim_id, claim_ids_seen) == claim_id \in claim_ids_seen

\* lines 168-269 of parse_claims: one pass of the loop over the claims, for an
\* element that is an object
parse_claim(claim, idx, claim_ids_seen, require_tests) ==
    LET base == "claims[" \o ToString(idx) \o "]"
        field_errors(journey_id, claim_id, claim_statement, decision_type, doc_scope,
                     doc_page, claim_kind, non_trivial_raw, status) ==
            (IF ~JOURNEY_ID_PATTERN(journey_id)
             THEN <<base \o ": invalid journey_id '" \o journey_id \o "'">> ELSE <<>>)
            \o (IF ~CLAIM_ID_PATTERN(claim_id)
                THEN <<base \o ": invalid claim_id '" \o claim_id \o "'">> ELSE <<>>)
            \o (IF Len(claim_statement) < 10
                THEN <<base \o ": claim_statement must be at least 10 chars">> ELSE <<>>)
            \o (IF decision_type \notin DECISION_TYPES
                THEN <<base \o ": decision_type must be one of ['adopt', 'migrate', 'operate']">>
                ELSE <<>>)
            \o (IF doc_scope \notin DOC_SCOPES
                THEN <<base \o ": doc_scope must be one of ['learn', 'theory', 'value_journey']">>
                ELSE <<>>)
            \o (IF doc_page = "" THEN <<base \o ": doc_page must be non-empty">> ELSE <<>>)
            \o (IF claim_kind \notin CLAIM_KINDS
                THEN <<base \o ": claim_kind must be one of ['boundary', 'failure_mode', 'guarantee', 'mechanism', 'performance']">>
                ELSE <<>>)
            \o (IF non_trivial_raw \notin BOOLEAN
                THEN <<base \o ": non_trivial must be a boolean">> ELSE <<>>)
            \o (IF status \notin CLAIM_STATUSES
                THEN <<base \o ": status must be one of ['at_risk', 'missing', 'supported']">>
                ELSE <<>>)
            \o (IF duplicate_claim_id(claim_id, claim_ids_seen)
                THEN <<base \o ": duplicate claim_id '" \o claim_id \o "'">> ELSE <<>>)
        signatures_of(signatures_raw) ==
            IF signatures_raw = <<>>
            THEN [signatures |-> <<>>,
                  errors |-> <<base \o ": signatures must be a non-empty array">>]
            ELSE parse_claim_signatures(base, signatures_raw, 0,
                     [signatures |-> <<>>, errors |-> <<>>])
        tests_of(tests_raw) ==
            IF require_tests
            THEN IF tests_raw = <<>>
                 THEN [values |-> <<>>,
                       errors |-> <<base \o ": tests must be a non-empty array when --require-tests">>]
                 ELSE parse_claim_strings(base \o ".tests", "test reference must be non-empty",
                                          tests_raw, 0, NoStrings)
            ELSE [values |-> parse_claim_strings(base, "", tests_raw, 0, NoStrings).values,
                  errors |-> <<>>]
        owner_modules_of(owner_modules_raw) ==
            IF owner_modules_raw = <<>>
            THEN [values |-> <<>>,
                  errors |-> <<base \o ": owner_modules must be a non-empty array">>]
            ELSE parse_claim_strings(base \o ".owner_modules", "module must be non-empty",
                                     owner_modules_raw, 0, NoStrings)
        Parsed(journey_id, claim_id, claim_statement, decision_type, doc_scope, doc_page,
               claim_kind, non_trivial_raw, status, signatures, tests, owner_modules) ==
            [claim |-> [journey_id |-> journey_id, claim_id |-> claim_id,
                        claim_statement |-> claim_statement, decision_type |-> decision_type,
                        doc_scope |-> doc_scope, doc_page |-> doc_page,
                        claim_kind |-> claim_kind, non_trivial |-> non_trivial_raw,
                        status |-> status, signatures |-> signatures.signatures,
                        tests |-> tests.values, owner_modules |-> owner_modules.values],
             claim_ids_seen |-> IF claim_id # "" THEN claim_ids_seen \cup {claim_id}
                                ELSE claim_ids_seen,
             errors |-> field_errors(journey_id, claim_id, claim_statement, decision_type,
                                     doc_scope, doc_page, claim_kind, non_trivial_raw, status)
                        \o signatures.errors \o tests.errors \o owner_modules.errors]
    IN  Parsed(strip(Get(claim, "journey_id", "")),
               strip(Get(claim, "claim_id", "")),
               strip(Get(claim, "claim_statement", "")),
               strip(Get(claim, "decision_type", "")),
               strip(Get(claim, "doc_scope", "value_journey")),
               strip(Get(claim, "doc_page", "")),
               strip(Get(claim, "claim_kind", "guarantee")),
               Get(claim, "non_trivial", TRUE),
               strip(Get(claim, "status", "")),
               signatures_of(Get(claim, "signatures", <<>>)),
               tests_of(Get(claim, "tests", <<>>)),
               owner_modules_of(Get(claim, "owner_modules", <<>>)))

\* dict.get(key) of a dict kept as a list of [key, value] pairs, the last pair
\* of a key holding its value
Lookup(pairs, key, default) ==
    LET hits == {k \in 1..Len(pairs) : pairs[k].key = key}
    IN  IF hits = {} THEN default ELSE pairs[Greatest(hits)].value

\* lines 153-158 of parse_claims, on the entries of the object in file order
parse_owner_routing(owner_routing_raw) ==
    LET kept(pair) == strip(pair.key) # "" /\ strip(pair.value) # ""
        pairs == filter_from(owner_routing_raw, 1, kept)
    IN  [k \in 1..Len(pairs) |-> [key |-> strip(pairs[k].key), value |-> strip(pairs[k].value)]]

\* lines 164-269: the loop over the claims
RECURSIVE parse_claims_loop(_, _, _, _)
parse_claims_loop(claims_raw, idx, require_tests, st) ==
    IF idx >= Len(claims_raw) THEN st
    ELSE LET Pass(one) ==
                 parse_claims_loop(claims_raw, idx + 1, require_tests,
                     [claims |-> Append(st.claims, one.claim),
                      claim_ids_seen |-> one.claim_ids_seen,
                      errors |-> st.errors \o one.errors])
         IN  Pass(parse_claim(claims_raw[idx + 1], idx, st.claim_ids_seen, require_tests))

\* sorted(dict.fromkeys(errors))
sorted_unique(errors) == sorted(dict_fromkeys(errors))

\* lines 143-271, for a claims file that holds JSON: an array at the root, or
\* an object whose key `claims`, when present, holds an array of objects
parse_claims(claims_file, require_tests) ==
    IF claims_file.state # "object"
    THEN [claims |-> <<>>, owner_routing |-> <<>>,
          errors |-> <<"claims file root must be a JSON object">>]
    ELSE IF "claims" \notin DOMAIN claims_file.root
    THEN [claims |-> <<>>,
          owner_routing |-> parse_owner_routing(Get(claims_file.root, "owner_routing", <<>>)),
          errors |-> <<"claims file must contain an array at key 'claims'">>]
    ELSE LET Parsed(st) ==
                 [claims |-> st.claims,
                  owner_routing |->
                      parse_owner_routing(Get(claims_file.root, "owner_routing", <<>>)),
                  errors |-> sorted_unique(st.errors)]
         IN  Parsed(parse_claims_loop(claims_file.root.claims, 0, require_tests,
                        [claims |-> <<>>, claim_ids_seen |-> {}, errors |-> <<>>]))

\* sorted(S) of a set of strings
SortedSet(S) ==
    LET Add(listed) == Append(listed, CHOOSE x \in S : \A j \in 1..Len(listed) : listed[j] # x)
        Listed[k \in 0..Cardinality(S)] == IF k = 0 THEN <<>> ELSE Add(Listed[k - 1])
    IN  sorted(Listed[Cardinality(S)])

\* the elements of a list, as a set
Range(items) == {items[k] : k \in 1..Len(items)}

\* line 274-275
infer_kind(signature) == IF Contains(signature, "#") THEN "method" ELSE "type"

\* a or b or c, for strings
FirstNonEmpty(a, b, c) == IF a # "" THEN a ELSE IF b # "" THEN b ELSE c

\* lines 122-138 of parse_links: the links of one row
RECURSIVE parse_row_links(_, _, _)
parse_row_links(row, links_raw, i) ==
    IF i > Len(links_raw) THEN <<>>
    ELSE LET Link(signature, kind) ==
                 IF signature = "" THEN <<>>
                 ELSE <<[journey_id |-> FirstNonEmpty(Get(row, "journey_id", ""),
                                                      Get(row, "story_id", ""), "<unknown>"),
                         title |-> Get(row, "title", ""),
                         value_proposition |->
                             FirstNonEmpty(Get(row, "value_proposition", ""),
                                           Get(row, "outcome", ""), ""),
                         kind |-> IF kind # "" THEN kind ELSE infer_kind(signature),
                         signature |-> signature]>>
         IN  Link(strip(Get(links_raw[i], "signature", "")),
                  strip(Get(links_raw[i], "kind", "")))
             \o parse_row_links(row, links_raw, i + 1)

\* lines 110-138 of parse_links: the loop over the rows
RECURSIVE parse_rows(_, _)
parse_rows(rows, i) ==
    IF i > Len(rows) THEN <<>>
    ELSE parse_row_links(rows[i], Get(rows[i], "links", <<>>), 1) \o parse_rows(rows, i + 1)

\* lines 94-140, for a links file that holds JSON: an array at the root, or an
\* object whose keys `journeys` and `stories`, when present, hold arrays of
\* objects
parse_links(links_file) ==
    IF links_file.state # "object" THEN [links |-> <<>>, schema_mode |-> "unknown"]
    ELSE IF "journeys" \in DOMAIN links_file.root
    THEN [links |-> parse_rows(links_file.root.journeys, 1), schema_mode |-> "journeys"]
    ELSE IF "stories" \in DOMAIN links_file.root
    THEN [links |-> parse_rows(links_file.root.stories, 1), schema_mode |-> "stories-legacy"]
    ELSE [links |-> <<>>, schema_mode |-> "unknown"]

\* lines 278-282: parse_type_line of the validator, which returns the name only
parse_type_line_name(raw) ==
    LET tokens == split(raw, "|")
        hits == {k \in 1..Len(tokens) : StartsWithAt(tokens[k], "type=", 0)}
    IN  IF hits = {} THEN "<unknown>" ELSE AfterEquals(tokens[Least(hits)])

\* lines 285-295: the signature files the index names, a path for each line
parse_index_entries(index_text) ==
    LET nonblank == filter_from(splitlines(index_text), 1, NonBlank)
        rels == [k \in 1..Len(nonblank) |-> strip(split(strip(nonblank[k]), "|")[1])]
    IN  sorted_by(dict_fromkeys(filter_from(rels, 1, NonEmpty)), PathLess)

\* lines 298-308; the first pattern asks for a backquoted name, which no text
\* of the model holds
extract_method_name(signature) ==
    LET n == Len(signature)
        Word(q) == Slice(signature, q, SkipSet(signature, q, WordChar))
        NameAt(p, q) == q > p + 3 /\ q < n /\ At(signature, q) \in IdentStart
        Named(after_fun, before_paren) ==
            IF after_fun # {} THEN Word(SkipSet(signature, Least(after_fun) + 3, Whitespace))
            ELSE IF before_paren # {} THEN Word(Least(before_paren))
            ELSE ""
    IN  Named({p \in 0..(n - 1) :
                  /\ StartsWithAt(signature, "fun", p)
                  /\ NameAt(p, SkipSet(signature, p + 3, Whitespace))},
              {p \in 0..(n - 1) :
                  /\ At(signature, p) \in IdentStart
                  /\ StartsWithAt(signature, "(",
                         SkipSet(signature, SkipSet(signature, p, WordChar), Whitespace))})

\* lines 325-362 of build_catalog: the body of the loop over the lines of a
\* signature file; methods_by_type and method_names_by_type are kept as sets of
\* pairs <<type, entry>>
build_catalog_step(st, raw_line) ==
    LET own(symbol) == {<<st.current_types[k], symbol>> : k \in 1..Len(st.current_types)}
        qualified(symbol) ==
            {st.current_types[k] \o "#" \o symbol : k \in 1..Len(st.current_types)}
        Type(current_type) ==
            IF current_type # "" /\ current_type # "<unknown>"
            THEN [st EXCEPT !.type_symbols = @ \cup {current_type},
                            !.current_types = Append(@, current_type),
                            !.section = NoSection]
            ELSE [st EXCEPT !.section = NoSection]
        Method(method_sig, method_name) ==
            [st EXCEPT !.method_symbols = @ \cup qualified(method_sig),
                       !.methods_by_type = @ \cup own(method_sig),
                       !.method_names_by_type =
                           IF method_name = "" THEN @ ELSE @ \cup own(method_name)]
        Entry(section, entry) ==
            IF section = "methods" THEN Method(entry, extract_method_name(entry))
            ELSE [st EXCEPT !.field_symbols = @ \cup qualified(entry)]
        Line(line) ==
            IF line = "" THEN st
            ELSE IF StartsWithAt(line, "type=", 0) THEN Type(parse_type_line_name(line))
            ELSE IF line = "methods:" THEN [st EXCEPT !.section = "methods"]
            ELSE IF line = "fields:" THEN [st EXCEPT !.section = "fields"]
            ELSE IF StartsWithAt(line, "- ", 0) /\ st.section \in {"methods", "fields"}
            THEN Entry(st.section, strip(Slice(line, 2, Len(line))))
            ELSE [st EXCEPT !.section = NoSection]
    IN  Line(strip(raw_line))

RECURSIVE build_catalog_lines(_, _, _)
build_catalog_lines(lines, i, st) ==
    IF i > Len(lines) THEN st
    ELSE build_catalog_lines(lines, i + 1, build_catalog_step(st, lines[i]))

\* the content of the file at path in a list of files, NoFile when there is none
NoFile == "<no file>"

ReadFile(file_list, path) ==
    LET hits == {k \in 1..Len(file_list) : file_list[k].path = path}
    IN  IF hits = {} THEN NoFile ELSE file_list[Least(hits)].content

\* lines 318-362 of build_catalog: the loop over the signature files
RECURSIVE build_catalog_files(_, _, _, _)
build_catalog_files(signatures_dir, entries, i, st) ==
    IF i > Len(entries) THEN st
    ELSE LET contents == ReadFile(signatures_dir.files, entries[i]) IN
         build_catalog_files(signatures_dir, entries, i + 1,
             IF contents = NoFile THEN st
             ELSE build_catalog_lines(splitlines(contents), 1,
                      [st EXCEPT !.current_types = <<>>, !.section = NoSection]))

\* lines 311-377
build_catalog(signatures_dir) ==
    LET Catalog(st) ==
            [type_symbols |-> st.type_symbols, method_symbols |-> st.method_symbols,
             field_symbols |-> st.field_symbols, methods_by_type |-> st.methods_by_type,
             method_names_by_type |-> st.method_names_by_type]
    IN  Catalog(build_catalog_files(signatures_dir,
                    parse_index_entries(signatures_dir.index), 1,
                    [type_symbols |-> {}, method_symbols |-> {}, field_symbols |-> {},
                     methods_by_type |-> {}, method_names_by_type |-> {},
                     current_types |-> <<>>, section |-> NoSection]))

\* lines 410-417, and the chain of lines 388-396 of resolve_links
resolve_signature_ref(ref, catalog) ==
    IF ref.kind = "type" THEN ref.signature \in catalog.type_symbols
    ELSE IF ref.kind = "method" THEN ref.signature \in catalog.method_symbols
    ELSE IF ref.kind = "field" THEN ref.signature \in catalog.field_symbols
    ELSE FALSE

\* the key of a link in the order of the missing links, line 405
link_key(item) == <<item.journey_id, item.kind, item.signature>>

LinkLess(a, b) == PartsLess(link_key(a), link_key(b), 1)

\* lines 380-407
resolve_links(links, catalog) ==
    LET exists(link) == resolve_signature_ref([link EXCEPT !.kind = lower(link.kind)], catalog)
        missing(link) == ~exists(link)
    IN  [resolved |-> filter_from(links, 1, exists),
         missing |-> sorted_by(filter_from(links, 1, missing), LinkLess)]

\* str.partition(sep)
partition(s, sep) ==
    LET at == Find(s, sep, 0) IN
    IF at = -1 THEN <<s, "", "">>
    ELSE <<Slice(s, 0, at), sep, Slice(s, at + Len(sep), Len(s))>>

\* lines 420-448
resolve_test_ref(test_ref, test_files, catalog) ==
    IF Contains(test_ref, "/")
    THEN LET path_part == partition(test_ref, "::")[1]
             selector == partition(test_ref, "::")[3]
             content == ReadFile(test_files, path_part)
         IN  IF content = NoFile THEN FALSE
             ELSE IF selector = "" THEN TRUE
             ELSE Contains(content, selector)
    ELSE IF Contains(test_ref, "#")
    THEN LET fqcn == strip(partition(test_ref, "#")[1])
             selector == strip(partition(test_ref, "#")[3])
             method_signatures == {m[2] : m \in {e \in catalog.methods_by_type : e[1] = fqcn}}
             method_names ==
                 {m[2] : m \in {e \in catalog.method_names_by_type : e[1] = fqcn}}
         IN  IF fqcn \notin catalog.type_symbols THEN FALSE
             ELSE IF selector = "" THEN TRUE
             ELSE IF selector \in method_signatures THEN TRUE
             ELSE IF selector \in method_names THEN TRUE
             ELSE \E method_signature \in method_signatures :
                      Contains(method_signature, selector)
    ELSE test_ref \in catalog.type_symbols

\* lines 451-456
canonical_doc_page(doc_page) ==
    LET Normalized(normalized) ==
            IF EndsWith(normalized, ".md") THEN Slice(normalized, 0, Len(normalized) - 3)
            ELSE normalized
        Stripped(stripped) ==
            Normalized(IF StartsWithAt(stripped, "/", 0)
                       THEN Slice(stripped, 1, Len(stripped)) ELSE stripped)
    IN  Stripped(strip(doc_page))

\* lines 459-460
doc_page_key(doc_scope, doc_page) == doc_scope \o ":" \o canonical_doc_page(doc_page)

\* lines 528-535
owner_paths_for_modules(owner_modules, owner_routing) ==
    sorted_unique([k \in 1..Len(owner_modules) |->
        Lookup(owner_routing, owner_modules[k], "/" \o owner_modules[k] \o "/**")])

\* the key of a claim in the order of the evaluations, line 548
claim_key(item) == <<item.journey_id, item.claim_id>>

ClaimLess(a, b) == PartsLess(claim_key(a), claim_key(b), 1)

\* lines 568-573, with both sides swapped in the second test
computed_status_either_missing(signatures_ok, tests_ok) ==
    IF signatures_ok /\ tests_ok THEN "supported"
    ELSE IF ~signatures_ok \/ ~tests_ok THEN "missing"
    ELSE "at_risk"

\* lines 568-573
computed_status_of(signatures_ok, tests_ok) ==
    IF signatures_ok /\ tests_ok THEN "supported"
    ELSE IF signatures_ok \/ tests_ok THEN "at_risk"
    ELSE "missing"

\* lines 549-595: the body of the loop of evaluate_claims
evaluate_claim(claim, test_files, catalog, require_tests, owner_routing) ==
    LET unresolved(ref) == ~resolve_signature_ref(ref, catalog)
        untested(test_ref) == ~resolve_test_ref(test_ref, test_files, catalog)
        signatures_of(refs) == [k \in 1..Len(refs) |-> refs[k].signature]
        Evaluated(missing_signatures, missing_tests, computed_status) ==
            [evaluation |->
                [journey_id |-> claim.journey_id, claim_id |-> claim.claim_id,
                 doc_scope |-> claim.doc_scope,
                 doc_page |-> canonical_doc_page(claim.doc_page),
                 claim_kind |-> claim.claim_kind, non_trivial |-> claim.non_trivial,
                 declared_status |-> claim.status, computed_status |-> computed_status,
                 missing_signatures |-> missing_signatures, missing_tests |-> missing_tests,
                 owner_modules |-> claim.owner_modules,
                 owner_paths |-> owner_paths_for_modules(claim.owner_modules, owner_routing)],
             errors |->
                IF claim.status # computed_status
                THEN <<claim.claim_id \o ": declared status '" \o claim.status
                       \o "' does not match computed '" \o computed_status \o "'">>
                ELSE <<>>]
        Missing(missing_signatures, missing_tests) ==
            Evaluated(missing_signatures, missing_tests,
                computed_status_of(
                    Len(missing_signatures) = 0 /\ Len(claim.signatures) > 0,
                    Len(missing_tests) = 0 /\ (Len(claim.tests) > 0 \/ ~require_tests)))
    IN  Missing(sorted(signatures_of(filter_from(claim.signatures, 1, unresolved))),
                sorted(filter_from(claim.tests, 1, untested)))

RECURSIVE concat_errors(_, _)
concat_errors(results, i) ==
    IF i > Len(results) THEN <<>>
    ELSE results[i].errors \o concat_errors(results, i + 1)

\* lines 538-597
evaluate_claims(claims, test_files, catalog, require_tests, owner_routing) ==
    LET Evaluated(results) ==
            [evaluations |-> [k \in 1..Len(results) |-> results[k].evaluation],
             errors |-> sorted_unique(concat_errors(results, 1))]
        Ordered(ordered) ==
            Evaluated([k \in 1..Len(ordered) |->
                          evaluate_claim(ordered[k], test_files, catalog, require_tests,
                                         owner_routing)])
    IN  Ordered(sorted_by(claims, ClaimLess))

\* lines 463-465, as a path below the repository root
resolve_doc_path(doc_page) == "docusaurus/docs/" \o canonical_doc_page(doc_page) \o ".md"

\* `claim ledger` at offset q of content, in any letter case
ClaimLedgerAt(content, q) ==
    q + 12 <= Len(content) /\ lower(Slice(content, q, q + 12)) = "claim ledger"

\* the end of the first match of ^##\s+Claim ledger\s*$ (IGNORECASE, MULTILINE)
\* in content, or None: the heading starts a line, and the whitespace after
\* it runs up to a line end
ledger_heading_end(content) ==
    LET n == Len(content)
        words(p) == SkipSet(content, p + 2, Whitespace)
        ends_after(q) == {r \in (q + 12)..SkipSet(content, q + 12, Whitespace) :
                             r = n \/ At(content, r) = "\n"}
        heading(p, q) == q > p + 2 /\ ClaimLedgerAt(content, q) /\ ends_after(q) # {}
        First(starts) ==
            IF starts = {} THEN None ELSE Greatest(ends_after(words(Least(starts))))
    IN  First({p \in 0..(n - 1) :
                  /\ p = 0 \/ At(content, p - 1) = "\n"
                  /\ StartsWithAt(content, "##", p)
                  /\ heading(p, words(p))})

\* the start of the first match of ^##\s+ (MULTILINE) in section, or None
next_heading_start(section) ==
    LET starts == {p \in 0..(Len(section) - 1) :
                      /\ p = 0 \/ At(section, p - 1) = "\n"
                      /\ StartsWithAt(section, "##", p)
                      /\ p + 2 < Len(section)
                      /\ At(section, p + 2) \in Whitespace}
    IN  IF starts = {} THEN None ELSE Least(starts)

\* set(CLAIM_ID_PATTERN.findall(section)): a match starts at a word boundary,
\* and no match starts inside another
claim_ids_in(section) ==
    {Slice(section, p, ClaimIdEnd(section, p)) :
        p \in {q \in 0..(Len(section) - 1) :
                  /\ q = 0 \/ At(section, q - 1) \notin WordChar
                  /\ ClaimIdEnd(section, q) # None}}

\* lines 468-491
extract_claim_ids_from_claim_ledger(content, require_claim_ledger, file_label) ==
    LET Extracted(start, claim_ids) ==
            [claim_ids |-> claim_ids,
             errors |->
                (IF start = None /\ require_claim_ledger
                 THEN <<file_label \o ": missing required '## Claim ledger' section">>
                 ELSE <<>>)
                \o (IF claim_ids = {}
                    THEN <<file_label \o ": must reference at least one claim_id">>
                    ELSE <<>>)]
        UpTo(rest, next_heading) ==
            IF next_heading = None THEN rest ELSE Slice(rest, 0, next_heading)
        Rest(rest) == UpTo(rest, next_heading_start(rest))
        Section(start) ==
            IF start # None THEN Rest(Slice(content, start, Len(content)))
            ELSE IF require_claim_ledger THEN ""
            ELSE content
        Ledger(start) == Extracted(start, claim_ids_in(Section(start)))
    IN  Ledger(ledger_heading_end(content))

\* the keys of the doc pages of the claims
doc_page_keys(claims) ==
    {doc_page_key(claims[k].doc_scope, claims[k].doc_page) : k \in 1..Len(claims)}

\* lines 499-503 of parse_doc_claim_refs: the first claim of a doc page
grouped_page(claims, key) ==
    claims[Least({k \in 1..Len(claims) :
                     doc_page_key(claims[k].doc_scope, claims[k].doc_page) = key})]

\* lines 494-525; refs maps the keys of the pages found to their claim ids
parse_doc_claim_refs(doc_files, claims) ==
    LET path_of(key) == resolve_doc_path(grouped_page(claims, key).doc_page)
        Page(claim, path) ==
            extract_claim_ids_from_claim_ledger(ReadFile(doc_files, path),
                claim.doc_scope \in {"theory", "learn"}, path)
        Parsed(keys, found, extracted) ==
            [refs |-> [key \in found |-> extracted[key].claim_ids],
             errors |->
                SortedSet(
                    {key \o ": doc page not found at " \o path_of(key) : key \in keys \ found}
                    \cup UNION {Range(extracted[key].errors) : key \in found})]
        Found(keys, found) ==
            Parsed(keys, found,
                   [key \in found |-> Page(grouped_page(claims, key), path_of(key))])
        Grouped(keys) ==
            Found(keys, {key \in keys : ReadFile(doc_files, path_of(key)) # NoFile})
    IN  Grouped(doc_page_keys(claims))

\* lines 600-627
validate_doc_claim_references(claims, doc_claim_refs) ==
    LET refs(key) == IF key \in DOMAIN doc_claim_refs THEN doc_claim_refs[key] ELSE {}
        Validated(claim_ids_by_doc) ==
            SortedSet(
                UNION {{key \o ": unknown claim_id referenced in docs: " \o claim_id :
                           claim_id \in doc_claim_refs[key]
                                        \ (IF key \in DOMAIN claim_ids_by_doc
                                           THEN claim_ids_by_doc[key] ELSE {})} :
                       key \in DOMAIN doc_claim_refs}
                \cup UNION {{key \o ": claim_id not referenced in docs: " \o claim_id :
                                claim_id \in claim_ids_by_doc[key] \ refs(key)} :
                            key \in DOMAIN claim_ids_by_doc})
        Keyed(keys) ==
            Validated([key \in keys |->
                {claims[k].claim_id :
                    k \in {j \in 1..Len(claims) :
                              doc_page_key(claims[j].doc_scope, claims[j].doc_page) = key}}])
    IN  Keyed(doc_page_keys(claims))

\* the key of an unresolved claim in the order of the report, lines 752-755
unresolved_key(item) == <<item.doc_scope, item.journey_id, item.claim_id>>

UnresolvedLess(a, b) == PartsLess(unresolved_key(a), unresolved_key(b), 1)

\* the number of items of a list that satisfy Keep
Count(items, Keep(_)) == Cardinality({k \in 1..Len(items) : Keep(items[k])})

\* lines 687-797; the paths of the run are left out of the report
build_report(signatures_found, schema_mode, links, resolved_links, missing_links, refresh_attempted, refresh_succeeded, refresh_details, claims_enabled, claims, claim_errors, claim_doc_errors, claim_evaluations, require_tests, ci_mode) ==
    LET computed(status) == Count(claim_evaluations, LAMBDA item : item.computed_status = status)
        scopes == {claims[k].doc_scope : k \in 1..Len(claims)}
                  \cup {claim_evaluations[k].doc_scope : k \in 1..Len(claim_evaluations)}
        scope_summary(scope) ==
            [total |-> Count(claims, LAMBDA claim : claim.doc_scope = scope),
             supported |-> Count(claim_evaluations, LAMBDA item :
                               item.doc_scope = scope /\ item.computed_status = "supported"),
             at_risk |-> Count(claim_evaluations, LAMBDA item :
                             item.doc_scope = scope /\ item.computed_status = "at_risk"),
             missing |-> Count(claim_evaluations, LAMBDA item :
                             item.doc_scope = scope
                             /\ item.computed_status \notin {"supported", "at_risk"})]
        open(item) == item.computed_status # "supported" /\ item.non_trivial
        unresolved_claims == filter_from(claim_evaluations, 1, open)
        unresolved_claims_sorted == sorted_by(unresolved_claims, UnresolvedLess)
        has_issues == \/ missing_links # <<>>
                      \/ claim_errors # <<>>
                      \/ claim_doc_errors # <<>>
                      \/ unresolved_claims_sorted # <<>>
    IN  [status |-> IF ~has_issues THEN "ok" ELSE "issues",
         signatures_found |-> signatures_found,
         schema_mode |-> schema_mode,
         refresh_attempted |-> refresh_attempted,
         refresh_succeeded |-> refresh_succeeded,
         refresh_details |-> refresh_details,
         ci_mode |-> ci_mode,
         links |-> [total |-> Len(links), resolved |-> Len(resolved_links),
                    missing |-> Len(missing_links),
                    missing_entries |->
                        [k \in 1..Len(missing_links) |->
                            [journey_id |-> missing_links[k].journey_id,
                             title |-> missing_links[k].title,
                             kind |-> missing_links[k].kind,
                             signature |-> missing_links[k].signature]]],
         claims |-> [enabled |-> claims_enabled,
                     require_tests |-> require_tests,
                     total |-> Len(claims),
                     supported |-> computed("supported"),
                     at_risk |-> computed("at_risk"),
                     missing |-> computed("missing"),
                     by_scope |-> [scope \in scopes |-> scope_summary(scope)],
                     unresolved_by_scope |->
                         [scope \in {unresolved_claims[k].doc_scope :
                                        k \in 1..Len(unresolved_claims)} |->
                             Count(unresolved_claims, LAMBDA item : item.doc_scope = scope)],
                     schema_errors |-> claim_errors,
                     doc_reference_errors |-> claim_doc_errors,
                     unresolved |-> unresolved_claims_sorted]]

(***************************************************************************)
(* main of the validator, statement by statement.  The repository holds    *)
(* the links file, the claims file, one signatures directory, the doc      *)
(* pages and the test files; refresh_artifacts runs the generator, which   *)
(* fails or writes the signatures directory.                               *)
(***************************************************************************)
\* lines 80-91 with no --signatures-dir: whether an INDEX.sig is found
detect_signatures_dir(repository) == repository.signatures.exists

\* lines 648-684: the generator fails, or writes the tree it generates
refresh_artifacts(repository) ==
    IF repository.generated.exists
    THEN [succeeded |-> TRUE, details |-> "refresh_ok signatures=signatures",
          signatures |-> repository.generated]
    ELSE [succeeded |-> FALSE, details |-> "signature refresh failed rc=1",
          signatures |-> repository.signatures]

\* lines 898-918 and 936-954: the claims evaluated against a catalog
evaluated(frame, repository, catalog) ==
    LET Evaluated(result, doc_refs) ==
            [frame EXCEPT
                !.claim_evaluations = result.evaluations,
                !.claim_errors = sorted_unique(frame.claim_errors \o result.errors),
                !.claim_doc_errors =
                    sorted_unique(doc_refs.errors
                        \o validate_doc_claim_references(frame.claims, doc_refs.refs))]
    IN  Evaluated(evaluate_claims(frame.claims, repository.tests, catalog,
                                  args.require_tests, frame.owner_routing),
                  parse_doc_claim_refs(repository.docs, frame.claims))

\* lines 847-855: the links file is looked up
CheckLinksFile ==
    /\ vj_pc = "main"
    /\ vj' = [vj EXCEPT !.ci_mode = IF args.strict THEN "strict" ELSE args.ci_mode]
    /\ IF repo.links_file.state = "absent"
       THEN vj_pc' = "exited" /\ exit_code' = 1
       ELSE vj_pc' = "parse_links" /\ exit_code' = exit_code
    /\ UNCHANGED <<scVars, runVars, ixVars, args, repo, report>>

\* line 857: json.loads raises on a file that holds no JSON, and nothing
\* catches it
ParseLinks ==
    /\ vj_pc = "parse_links"
    /\ IF repo.links_file.state = "malformed"
       THEN vj_pc' = "raised" /\ exit_code' = 1 /\ vj' = vj
       ELSE /\ LET Parsed(parsed) == [vj EXCEPT !.links = parsed.links,
                                                 !.schema_mode = parsed.schema_mode]
               IN  vj' = Parsed(parse_links(repo.links_file))
            /\ vj_pc' = "parse_claims"
            /\ exit_code' = exit_code
    /\ UNCHANGED <<scVars, runVars, ixVars, args, repo, report>>

\* lines 859-869
ParseClaims ==
    /\ vj_pc = "parse_claims"
    /\ IF args.claims_file /\ repo.claims_file.state = "malformed"
       THEN vj_pc' = "raised" /\ exit_code' = 1 /\ vj' = vj
       ELSE /\ vj' = IF ~args.claims_file THEN vj
                     ELSE IF repo.claims_file.state = "absent"
                     THEN [vj EXCEPT !.claim_errors = <<"claims file not found: claims.json">>]
                     ELSE LET Parsed(parsed) ==
                                  [vj EXCEPT !.claims = parsed.claims,
                                             !.owner_routing = parsed.owner_routing,
                                             !.claim_errors = parsed.errors]
                          IN  Parsed(parse_claims(repo.claims_file, args.require_tests))
            /\ vj_pc' = "detect_signatures_dir"
            /\ exit_code' = exit_code
    /\ UNCHANGED <<scVars, runVars, ixVars, args, repo, report>>

\* lines 871-883
DetectSignatures ==
    /\ vj_pc = "detect_signatures_dir"
    /\ IF ~detect_signatures_dir(repo) /\ args.auto_refresh
       THEN LET Refreshed(refreshed) ==
                    /\ repo' = [repo EXCEPT !.signatures = refreshed.signatures]
                    /\ vj' = [vj EXCEPT !.refresh_attempted = TRUE,
                                        !.refresh_succeeded = refreshed.succeeded,
                                        !.refresh_details = refreshed.details,
                                        !.signatures_dir =
                                            refreshed.succeeded /\ refreshed.signatures.exists]
            IN  Refreshed(refresh_artifacts(repo))
       ELSE /\ repo' = repo
            /\ vj' = [vj EXCEPT !.signatures_dir = detect_signatures_dir(repo),
                                !.refresh_details =
                                    IF detect_signatures_dir(repo) THEN ""
                                    ELSE "signatures directory missing; run with --auto-refresh"]
    /\ vj_pc' = "build_catalog"
    /\ UNCHANGED <<scVars, runVars, ixVars, args, report, exit_code>>

\* lines 885-896
BuildCatalog ==
    /\ vj_pc = "build_catalog"
    /\ LET Resolved(catalog, links) ==
               [vj EXCEPT !.catalog = catalog,
                          !.resolved_links = links.resolved,
                          !.missing_links = links.missing]
           Built(catalog) == Resolved(catalog, resolve_links(vj.links, catalog))
       IN  vj' = Built(IF vj.signatures_dir THEN build_catalog(repo.signatures)
                       ELSE EmptyCatalog)
    /\ vj_pc' = "evaluate_claims"
    /\ UNCHANGED <<scVars, runVars, ixVars, args, repo, report, exit_code>>

\* lines 898-918
EvaluateClaims ==
    /\ vj_pc = "evaluate_claims"
    /\ vj' = IF vj.claims # <<>> /\ vj.signatures_dir THEN evaluated(vj, repo, vj.catalog)
             ELSE vj
    /\ vj_pc' = "refresh"
    /\ UNCHANGED <<scVars, runVars, ixVars, args, repo, report, exit_code>>

\* lines 920-925
needs_refresh ==
    \/ vj.missing_links # <<>>
    \/ /\ vj.claims # <<>>
       /\ \E k \in 1..Len(vj.claim_evaluations) :
              vj.claim_evaluations[k].computed_status # "supported"

\* lines 927-954
Refresh ==
    /\ vj_pc = "refresh"
    /\ IF needs_refresh /\ args.auto_refresh /\ ~vj.refresh_attempted
       THEN LET Resolved(attempted, catalog, links) ==
                    [attempted EXCEPT !.signatures_dir = TRUE,
                                      !.catalog = catalog,
                                      !.resolved_links = links.resolved,
                                      !.missing_links = links.missing]
                Evaluated(resolved, catalog) ==
                    IF vj.claims = <<>> THEN resolved
                    ELSE evaluated(resolved, repo, catalog)
                Built(attempted, catalog) ==
                    Evaluated(Resolved(attempted, catalog, resolve_links(vj.links, catalog)),
                              catalog)
                Attempted(refreshed, attempted) ==
                    IF ~refreshed.succeeded THEN attempted
                    ELSE IF ~refreshed.signatures.exists
                    THEN [attempted EXCEPT !.signatures_dir = FALSE]
                    ELSE Built(attempted, build_catalog(refreshed.signatures))
                Refreshed(refreshed) ==
                    /\ repo' = [repo EXCEPT !.signatures = refreshed.signatures]
                    /\ vj' = Attempted(refreshed,
                                 [vj EXCEPT !.refresh_attempted = TRUE,
                                            !.refresh_succeeded = refreshed.succeeded,
                                            !.refresh_details = refreshed.details])
            IN  Refreshed(refresh_artifacts(repo))
       ELSE repo' = repo /\ vj' = vj
    /\ vj_pc' = "build_report"
    /\ UNCHANGED <<scVars, runVars, ixVars, args, report, exit_code>>

\* lines 956-981
BuildReport ==
    /\ vj_pc = "build_report"
    /\ report' = build_report(vj.signatures_dir, vj.schema_mode, vj.links,
                              vj.resolved_links, vj.missing_links, vj.refresh_attempted,
                              vj.refresh_succeeded, vj.refresh_details, args.claims_file,
                              vj.claims, vj.claim_errors, vj.claim_doc_errors,
                              vj.claim_evaluations, args.require_tests, vj.ci_mode)
    /\ vj_pc' = "exit"
    /\ UNCHANGED <<scVars, runVars, ixVars, args, repo, vj, exit_code>>

\* lines 983-986
Exit ==
    /\ vj_pc = "exit"
    /\ exit_code' = IF vj.ci_mode = "strict" /\ report.status # "ok" THEN 2 ELSE 0
    /\ vj_pc' = "exited"
    /\ UNCHANGED <<scVars, runVars, ixVars, args, repo, vj, report>>

(***************************************************************************)
(* Specification SpecJourney: one run of the validator, on each            *)
(* repository and command line of a bounded family.                        *)
(***************************************************************************)
\* the signatures of a source file src/A.kt with a class p.A
GeneratedTree ==
    [exists |-> TRUE, index |-> "src/A.kt.sig\n",
     files |-> <<[path |-> "src/A.kt.sig",
                  content |-> "file=src/A.kt\npackage=p\ntype=p.A|kind=class|decl=class A\nfields:\n- val x\nmethods:\n- fun f(): Int\n"]>>]

TestFiles == <<[path |-> "tests/a_test.py", content |-> "def test_f(): pass\n"]>>

DocFiles ==
    <<[path |-> "docusaurus/docs/journeys/a.md", content |-> "# A\nsee AA-001-C1.\n"],
      [path |-> "docusaurus/docs/theory/t.md",
       content |-> "# T\n## claim ledger  \n- AA-001-C2\n## Next\nAA-009-C9\n"],
      [path |-> "docusaurus/docs/learn/l.md", content |-> "# L\nAA-002-C1\n"]>>

\* the claim objects the claims files are made of
ClaimPool ==
    <<[journey_id |-> "AA-001", claim_id |-> "AA-001-C1",
       claim_statement |-> "flags evaluate deterministically", decision_type |-> "adopt",
       doc_page |-> "/journeys/a.md", status |-> "supported",
       signatures |-> <<[kind |-> "type", signature |-> "p.A"]>>,
       tests |-> <<"p.A#f">>, owner_modules |-> <<"core">>],
      [journey_id |-> "AA-002", claim_id |-> "AA-002-C1",
       claim_statement |-> "rollouts are sticky", decision_type |-> " adopt ",
       doc_scope |-> "learn", doc_page |-> "learn/l", non_trivial |-> TRUE,
       status |-> "missing",
       signatures |-> <<[kind |-> "Method", signature |-> "p.A#fun g()"]>>,
       tests |-> <<"">>, owner_modules |-> <<"core", " ">>],
      [journey_id |-> "AA-001", claim_id |-> "AA-001-C2",
       claim_statement |-> "parsing has a boundary", decision_type |-> "decide",
       doc_scope |-> "theory", doc_page |-> "theory/t", claim_kind |-> "boundary",
       non_trivial |-> TRUE, status |-> "at_risk",
       signatures |-> <<[kind |-> "field", signature |-> "p.A#val x"]>>,
       tests |-> <<"tests/a_test.py::test_x">>, owner_modules |-> <<"ops">>],
      [journey_id |-> "AA-001", claim_id |-> " AA-001-C1", claim_statement |-> "short",
       decision_type |-> "Adopt", doc_page |-> "journeys/a", non_trivial |-> FALSE,
       status |-> "supported",
       signatures |-> <<[kind |-> "type", signature |-> "p.B"], [kind |-> "other"]>>],
      [journey_id |-> "aa-1", status |-> "at_risk", tests |-> <<"p.A", "tests/a_test.py">>,
       signatures |-> <<[kind |-> "method", signature |-> "p.A#fun f(): Int"]>>,
       owner_modules |-> <<"core">>]>>

MaxClaims == 2

\* the lists of at most MaxClaims claim objects of the pool
ClaimLists ==
    UNION {[1..n -> 1..Len(ClaimPool)] : n \in 0..MaxClaims}

\* the claims files without claims; the first stands for one that is not given
ClaimsFiles ==
    <<[state |-> "absent", root |-> <<>>],
      [state |-> "absent", root |-> <<>>],
      [state |-> "malformed", root |-> <<>>],
      [state |-> "array", root |-> <<>>],
      [state |-> "object", root |-> [owner_routing |-> <<>>]]>>

ClaimsFilesWithClaims ==
    {[state |-> "object",
           root |-> [claims |-> [k \in 1..Len(picks) |-> ClaimPool[picks[k]]],
                     owner_routing |-> <<[key |-> " core ", value |-> "/core/**"],
                                         [key |-> "ops", value |-> " "]>>]] :
          picks \in ClaimLists}

LinksFiles ==
    <<[state |-> "absent", root |-> <<>>],
     [state |-> "malformed", root |-> <<>>],
     [state |-> "array", root |-> <<>>],
     [state |-> "object",
      root |-> [journeys |-> <<[journey_id |-> "AA-001", title |-> "A",
                                links |-> <<[signature |-> "p.A"],
                                            [signature |-> " p.A#fun f(): Int "],
                                            [kind |-> "field", signature |-> "p.A#val x"],
                                            [kind |-> "type"]>>]>>]],
     [state |-> "object",
      root |-> [stories |-> <<[story_id |-> "AA-002", outcome |-> "B",
                               links |-> <<[kind |-> "type", signature |-> "p.B"],
                                           [signature |-> "p.A"]>>]>>]]>>

\* --ci-mode, --strict, --require-tests and --auto-refresh
CommandLines ==
    {[ci_mode |-> "warn", strict |-> FALSE], [ci_mode |-> "strict", strict |-> FALSE],
     [ci_mode |-> "warn", strict |-> TRUE]}
    \X BOOLEAN \X BOOLEAN

\* the runs of the family: a links file that ends the run, a claims file
\* that is not given or holds no claims, or a claims file with claims
Runs ==
    {[links_file |-> links_file, claims_file |-> ClaimsFiles[1], given |-> FALSE,
      signatures |-> NoTree, generated |-> NoTree, docs |-> <<>>] :
        links_file \in {LinksFiles[1], LinksFiles[2]}}
    \cup {[links_file |-> LinksFiles[l], claims_file |-> ClaimsFiles[c], given |-> c > 1,
           signatures |-> signatures, generated |-> generated, docs |-> DocFiles] :
            l \in 3..5, c \in 1..5, signatures \in {NoTree, GeneratedTree},
            generated \in {NoTree, GeneratedTree}}
    \cup {[links_file |-> LinksFiles[4], claims_file |-> claims_file, given |-> TRUE,
           signatures |-> trees[1], generated |-> trees[2], docs |-> docs] :
            claims_file \in ClaimsFilesWithClaims,
            trees \in {<<NoTree, NoTree>>, <<NoTree, GeneratedTree>>,
                       <<GeneratedTree, GeneratedTree>>},
            docs \in {<<>>, DocFiles}}
    \cup {[links_file |-> LinksFiles[3], claims_file |-> claims_file, given |-> TRUE,
           signatures |-> tree, generated |-> tree, docs |-> DocFiles] :
            claims_file \in ClaimsFilesWithClaims, tree \in {NoTree, GeneratedTree}}

InitJourney ==
    /\ StripIdle
    /\ RunIdle
    /\ IndexIdle
    /\ \E command \in CommandLines, run \in Runs :
          /\ args = [ci_mode |-> command[1].ci_mode, strict |-> command[1].strict,
                     require_tests |-> command[2], auto_refresh |-> command[3],
                     claims_file |-> run.given]
          /\ repo = [links_file |-> run.links_file, claims_file |-> run.claims_file,
                     signatures |-> run.signatures, generated |-> run.generated,
                     docs |-> run.docs, tests |-> TestFiles]
    /\ vj_pc = "main"
    /\ vj = NoFrameOfMain
    /\ report = NoReport
    /\ exit_code = None

NextJourney ==
    \/ CheckLinksFile
    \/ ParseLinks
    \/ ParseClaims
    \/ DetectSignatures
    \/ BuildCatalog
    \/ EvaluateClaims
    \/ Refresh
    \/ BuildReport
    \/ Exit

SpecJourney == InitJourney /\ [][NextJourney]_vars

(***************************************************************************)
(* C15: the exit code of the validator: 0 in warn mode; in strict mode 2   *)
(* exactly when the status of the report is not `ok`, else 0; and 1 only   *)
(* when the links file does not exist, before any report is written.       *)
(***************************************************************************)
C15_ExitCodes ==
    exit_code # None =>
        /\ exit_code \in {0, 1, 2}
        /\ exit_code = 1 => repo.links_file.state = "absent" /\ report = NoReport
        /\ exit_code # 1 /\ vj.ci_mode = "warn" => exit_code = 0
        /\ exit_code # 1 /\ vj.ci_mode = "strict" => (exit_code = 2 <=> report.status # "ok")

(***************************************************************************)
(* C16: the computed status of a claim is `supported` exactly when its     *)
(* signature side and its test side are both satisfied, `missing` exactly  *)
(* when neither is, `at_risk` exactly when one is; the signature side is   *)
(* satisfied when the claim has a signature reference and each resolves in *)
(* the catalog, the test side when each test reference resolves and there  *)
(* is one if tests are required.  A declared status that differs from the  *)
(* computed one has an error entry.                                        *)
(***************************************************************************)
SignatureSide(claim) ==
    /\ claim.signatures # <<>>
    /\ \A k \in 1..Len(claim.signatures) :
           resolve_signature_ref(claim.signatures[k], vj.catalog)

TestSide(claim) ==
    /\ \A k \in 1..Len(claim.tests) : resolve_test_ref(claim.tests[k], repo.tests, vj.catalog)
    /\ args.require_tests => claim.tests # <<>>

\* the claim an evaluation was computed from
EvaluatedClaim(k) == sorted_by(vj.claims, ClaimLess)[k]

StatusMismatch(item) ==
    item.claim_id \o ": declared status '" \o item.declared_status
    \o "' does not match computed '" \o item.computed_status \o "'"

C16_ComputedStatus ==
    \A k \in 1..Len(vj.claim_evaluations) :
        LET item == vj.claim_evaluations[k]
            claim == EvaluatedClaim(k)
        IN  /\ item.claim_id = claim.claim_id /\ item.declared_status = claim.status
            /\ item.computed_status \in CLAIM_STATUSES
            /\ item.computed_status = "supported" <=> SignatureSide(claim) /\ TestSide(claim)
            /\ item.computed_status = "missing" <=> ~SignatureSide(claim) /\ ~TestSide(claim)
            /\ item.computed_status = "at_risk" <=> SignatureSide(claim) # TestSide(claim)
            /\ item.declared_status # item.computed_status
               => StatusMismatch(item) \in Range(vj.claim_errors)

\* a run that computed one claim as supported and another, declared missing,
\* as at_risk, and reported the mismatch
C16_Witness ==
    /\ vj_pc = "exited"
    /\ Len(vj.claim_evaluations) = 2
    /\ vj.claim_evaluations[1].computed_status = "supported"
    /\ vj.claim_evaluations[2].computed_status = "at_risk"
    /\ vj.claim_evaluations[2].declared_status = "missing"
    /\ StatusMismatch(vj.claim_evaluations[2]) \in Range(report.claims.schema_errors)

(***************************************************************************)
(* C17: the `unresolved` list of the report is ordered by journey_id and   *)
(* then claim_id, whatever the order of the claims in the claims file and  *)
(* the values of their other fields.                                       *)
(***************************************************************************)
C17_UnresolvedByJourneyThenClaim ==
    report # NoReport =>
        \A k \in 1..(Len(report.claims.unresolved) - 1) :
            ~ClaimLess(report.claims.unresolved[k + 1], report.claims.unresolved[k])

(***************************************************************************)
(* C18: parse_claims returns schema violations as error strings and does   *)
(* not raise: on a list of claim objects it returns an error for each      *)
(* claim whose decision_type is not adopt, migrate or operate, for each    *)
(* claim without tests while tests are required, and for each claim whose  *)
(* non-empty claim_id is that of an earlier claim; the first claim of an   *)
(* id gets no duplicate error.                                             *)
(***************************************************************************)
ClaimsParsed ==
    /\ args.claims_file
    /\ repo.claims_file.state = "object"
    /\ "claims" \in DOMAIN repo.claims_file.root
    /\ vj_pc \notin {"main", "parse_links", "parse_claims"}
    /\ repo.links_file.state \notin {"absent", "malformed"}

ClaimObject(idx) == repo.claims_file.root.claims[idx + 1]

ClaimIdOf(idx) == strip(Get(ClaimObject(idx), "claim_id", ""))

ErrorOf(idx, message) == "claims[" \o ToString(idx) \o "]: " \o message

DuplicateError(idx) == ErrorOf(idx, "duplicate claim_id '" \o ClaimIdOf(idx) \o "'")

C18_SchemaErrorsReturned ==
    ClaimsParsed =>
        /\ vj_pc # "raised"
        /\ Len(vj.claims) = Len(repo.claims_file.root.claims)
        /\ \A idx \in 0..(Len(repo.claims_file.root.claims) - 1) :
              LET claim == ClaimObject(idx)
                  errors == Range(vj.claim_errors)
                  earlier == \E j \in 0..(idx - 1) : ClaimIdOf(j) = ClaimIdOf(idx)
              IN  /\ strip(Get(claim, "decision_type", "")) \notin DECISION_TYPES
                     => ErrorOf(idx, "decision_type must be one of ['adopt', 'migrate', 'operate']")
                        \in errors
                  /\ args.require_tests /\ Get(claim, "tests", <<>>) = <<>>
                     => ErrorOf(idx, "tests must be a non-empty array when --require-tests")
                        \in errors
                  /\ ClaimIdOf(idx) # "" /\ earlier => DuplicateError(idx) \in errors
                  /\ ~earlier => DuplicateError(idx) \notin errors

\* a claims file whose second claim repeats the id of the first, has a
\* decision_type outside the three and no tests (which are required),
\* parsed with its three errors returned
C18_Witness ==
    /\ ClaimsParsed
    /\ vj_pc = "detect_signatures_dir"
    /\ args.require_tests
    /\ Len(vj.claims) = 2
    /\ ClaimIdOf(0) = ClaimIdOf(1) /\ ClaimIdOf(1) # ""
    /\ vj.claims[2].decision_type \notin DECISION_TYPES
    /\ "tests" \notin DOMAIN ClaimObject(1)
    /\ DuplicateError(1) \in Range(vj.claim_errors)
    /\ DuplicateError(0) \notin Range(vj.claim_errors)

(***************************************************************************)
(* Specification SpecHeaders: parse_file on one file that declares class A *)
(* with a header of up to MaxHeaderTokens tokens after the name: brackets, *)
(* quotes, line ends, continuation markers and the header of a next type.  *)
(***************************************************************************)
MaxHeaderTokens == 3

HeaderTokens ==
    {"(", ")", "<", ">", "{", "}", "\n", ":", "where ", "\"", " ", "\nclass B",
     "({)", "<{>", "\"{\""}

RECURSIVE HeaderTexts(_)
HeaderTexts(n) ==
    IF n = 0 THEN {"class A"}
    ELSE LET shorter == HeaderTexts(n - 1)
         IN  shorter \cup {t \o k : t \in shorter, k \in HeaderTokens}

InitHeaders ==
    /\ StripIdle
    /\ IndexIdle
    /\ ValidatorIdle
    /\ files \in {<<[path |-> SourcePath, text |-> t]>> : t \in HeaderTexts(MaxHeaderTokens)}
    /\ file_idx = 1
    /\ pc = "parse_types"
    /\ types = <<>>
    /\ type_idx = 0
    /\ fields = <<>>
    /\ methods = <<>>
    /\ body_lines = <<>>
    /\ line_idx = 0
    /\ ex = NoFrame
    /\ records = <<>>
    /\ hist = NoHistory

SpecHeaders == InitHeaders /\ [][Next]_vars

(***************************************************************************)
(* C21: find_type_body_open returns the first `{` of its window (from the  *)
(* end of the header match to the start of the next type header, or the    *)
(* end of the text) that lies outside literals at parenthesis depth zero   *)
(* and angle-bracket depth zero, unless the header ends before it: at a    *)
(* newline outside literals at depth zero whose next line, after blanks    *)
(* and tabs, begins with none of `{`, `:` and `where `.  Then, and when    *)
(* the window holds no such `{`, it returns None.  Depths count the        *)
(* brackets opened and not yet closed; a closer with nothing open changes  *)
(* nothing.                                                                *)
(***************************************************************************)
\* the literal state and the depths before each offset of the window
HeaderStates(t, start, stop) ==
    LET After(s, ch) ==
            IF LiteralConsumes(s.lit, ch) THEN [s EXCEPT !.lit = LiteralStep(s.lit, ch)]
            ELSE [s EXCEPT !.depth = DepthStep(s.depth, ch)]
        Before[i \in start..stop] ==
            IF i = start THEN [lit |-> NoLiteral, depth |-> NoDepth]
            ELSE After(Before[i - 1], At(t, i - 1))
    IN  [i \in start..stop |-> Before[i]]

\* offset i holds ch outside literals at depth zero
PlainAt(t, states, i, ch) ==
    /\ At(t, i) = ch
    /\ ~states[i].lit.escaped /\ ~states[i].lit.in_single /\ ~states[i].lit.in_double
    /\ states[i].depth.paren = 0
    /\ states[i].depth.angle = 0

\* the newline at offset i ends the header
HeaderEndsAt(t, states, i, stop) ==
    /\ PlainAt(t, states, i, "\n")
    /\ LET rest == {j \in (i + 1)..(stop - 1) : At(t, j) \notin {" ", "\t"}}
       IN  \/ rest = {}
           \/ /\ ~StartsWithAt(t, "{", Least(rest))
              /\ ~StartsWithAt(t, ":", Least(rest))
              /\ ~StartsWithAt(t, "where ", Least(rest))

FirstBodyOpen(t, start, stop) ==
    LET Decided(opens, ends) ==
            IF opens = {} THEN None
            ELSE IF \E e \in ends : e < Least(opens) THEN None
            ELSE Least(opens)
        Over(states) ==
            Decided({i \in start..(stop - 1) : PlainAt(t, states, i, "{")},
                    {i \in start..(stop - 1) : HeaderEndsAt(t, states, i, stop)})
    IN  Over(HeaderStates(t, start, stop))

\* the window of the idx-th match of TYPE_PATTERN
HeaderWindow(t, matches, idx) ==
    [start |-> matches[idx].end,
     stop |-> IF idx + 1 <= Len(matches) THEN matches[idx + 1].start ELSE Len(t)]

BodyOpensAgree(t, matches) ==
    \A idx \in 1..Len(matches) :
        /\ types[idx].open_brace
               = FirstBodyOpen(t, HeaderWindow(t, matches, idx).start,
                               HeaderWindow(t, matches, idx).stop)
        /\ types[idx].open_brace # None
           => /\ types[idx].open_brace >= HeaderWindow(t, matches, idx).start
              /\ types[idx].open_brace < HeaderWindow(t, matches, idx).stop

C21_FirstUnguardedBrace ==
    pc \in {"for_type_block", "for_raw_line", "returned"}
    => BodyOpensAgree(text, TYPE_PATTERN_finditer(text, 0))

\* a body opened on a continuation line by the second `{` of the window, the
\* first one guarded
C21_Witness ==
    /\ pc = "for_type_block"
    /\ types[1].open_brace # None
    /\ \E i \in 7..(types[1].open_brace - 1) : At(text, i) = "{"
    /\ \E i \in 7..(types[1].open_brace - 1) : At(text, i) = "\n"

(***************************************************************************)
(* Specification SpecBalance: count_balance_outside_strings on every line  *)
(* of up to MaxBalanceLen characters over quotes, the backslash, brackets  *)
(* and a letter, for the bracket pairs the extractor passes.               *)
(***************************************************************************)
MaxBalanceLen == 4

BalanceAlphabet == {"\"", "'", "\\", "(", ")", "{", "}", "x"}

BracketPairs == {<<"(", ")">>, <<"{", "}">>}

InitBalance ==
    /\ cb_line \in StringsUpTo(BalanceAlphabet, MaxBalanceLen)
    /\ \E pair \in BracketPairs : cb_open = pair[1] /\ cb_close = pair[2]
    /\ cb_pc = "in"
    /\ cb_balance = 0
    /\ sc_line = ""
    /\ sc_flag = FALSE
    /\ sc_pc = "idle"
    /\ sc_out = NoResult
    /\ sc_again = NoResult
    /\ RunIdle
    /\ IndexIdle
    /\ ValidatorIdle

\* lines 115-139
CountBalance ==
    /\ cb_pc = "in"
    /\ cb_balance' = count_balance_outside_strings(cb_line, cb_open, cb_close)
    /\ cb_pc' = "counted"
    /\ UNCHANGED <<cb_line, cb_open, cb_close, sc_line, sc_flag, sc_pc, sc_out, sc_again,
                   runVars, ixVars, vjVars>>

NextBalance == CountBalance

SpecBalance == InitBalance /\ [][NextBalance]_vars

(***************************************************************************)
(* C22: count_balance_outside_strings(line, open, close) is the number of  *)
(* open characters minus the number of close characters outside single-    *)
(* and double-quoted literals.  A quote opens or closes a literal of its   *)
(* kind unless it stands inside a literal of the other kind; inside a      *)
(* literal a backslash makes the next character neutral, so that it cannot *)
(* close the literal; outside literals a backslash is an ordinary          *)
(* character.  The result may be negative.                                 *)
(***************************************************************************)
\* where offset i of the line stands: in code ("none") or in a literal of one
\* kind, and whether the character at i is made neutral by a backslash
QuoteStates(line) ==
    LET Toggled(s, kind) == [in |-> IF s.in = kind THEN "none" ELSE kind, neutral |-> FALSE]
        After(s, ch) ==
            IF s.neutral THEN [s EXCEPT !.neutral = FALSE]
            ELSE IF ch = "\\" /\ s.in # "none" THEN [s EXCEPT !.neutral = TRUE]
            ELSE IF ch = "'" /\ s.in # "double" THEN Toggled(s, "single")
            ELSE IF ch = "\"" /\ s.in # "single" THEN Toggled(s, "double")
            ELSE s
        Before[i \in 0..Len(line)] ==
            IF i = 0 THEN [in |-> "none", neutral |-> FALSE]
            ELSE After(Before[i - 1], At(line, i - 1))
    IN  [i \in 0..Len(line) |-> Before[i]]

OutsideLiterals(line, ch) ==
    LET Outside(states) ==
            {i \in 0..(Len(line) - 1) :
                At(line, i) = ch /\ states[i].in = "none" /\ ~states[i].neutral}
    IN  Outside(QuoteStates(line))

C22_BalanceOutsideLiterals ==
    cb_pc = "counted"
    => cb_balance = Cardinality(OutsideLiterals(cb_line, cb_open))
                    - Cardinality(OutsideLiterals(cb_line, cb_close))

\* a negative balance on a line that also holds a close character inside a
\* literal
C22_Witness ==
    /\ cb_pc = "counted"
    /\ cb_balance < 0
    /\ \E i \in 0..(Len(cb_line) - 1) :
           At(cb_line, i) = cb_close /\ i \notin OutsideLiterals(cb_line, cb_close)

(***************************************************************************)
(* Specification SpecBodies: parse_file on one file that declares class A  *)
(* with a body of up to MaxBodyLines lines: nested type headers with and   *)
(* without a body, fields and methods that end on their line or continue   *)
(* on the next.                                                            *)
(***************************************************************************)
MaxBodyLines == 3

BodyLines ==
    {"",
     "class N",
     "data class P(val a: Int)",
     "data class Q(",
     "val a: Int,",
     ")",
     "class M {",
     "}",
     "val x = 1",
     "val m = listOf(",
     "fun foo(): Int",
     "fun f(a: Int,",
     "b: Int) {"}

RECURSIVE BodiesOf(_)
BodiesOf(n) ==
    IF n = 0 THEN {""}
    ELSE LET shorter == BodiesOf(n - 1)
         IN  shorter \cup {b \o l \o "\n" : b \in shorter, l \in BodyLines}

InitBodies ==
    /\ StripIdle
    /\ IndexIdle
    /\ ValidatorIdle
    /\ files \in {<<[path |-> SourcePath, text |-> "class A {\n" \o b \o "}"]>> :
                    b \in BodiesOf(MaxBodyLines)}
    /\ file_idx = 1
    /\ pc = "parse_types"
    /\ types = <<>>
    /\ type_idx = 0
    /\ fields = <<>>
    /\ methods = <<>>
    /\ body_lines = <<>>
    /\ line_idx = 0
    /\ ex = NoFrame
    /\ records = <<>>
    /\ hist = NoHistory

SpecBodies == InitBodies /\ [][Next]_vars

\* the states of the extractor between two lines
Scanning(e) == ~e.skipping_type_header /\ e.pending_kind = NoKind

\* the line as the branches of the loop body see it
StrippedLine(e, raw_line) == strip(strip_comments(raw_line, e.in_block_comment).text)

(***************************************************************************)
(* C23: a nested type header that stands complete on its own line without  *)
(* a body (met while scanning at brace depth zero, its parentheses closed, *)
(* no `{`, no trailing comma) leaves the extractor in the Scanning state   *)
(* for the next line.                                                      *)
(***************************************************************************)
HeaderWithoutBody(stripped) ==
    /\ TYPE_START(stripped)
    /\ ~Contains(stripped, "{")
    /\ ~EndsWith(stripped, ",")
    /\ count_balance_outside_strings(stripped, "(", ")") = 0

C23_HeaderOnlyLineLeavesSkipping ==
    [][(/\ ExtractLine
        /\ Scanning(ex)
        /\ ex.brace_depth = 0
        /\ HeaderWithoutBody(StrippedLine(ex, body_lines[line_idx])))
       => Scanning(ex')]_vars

(***************************************************************************)
(* C25: every emitted entry is built from a single declaration: no line    *)
(* after the first of the lines an entry was accumulated from matches a    *)
(* method-start, field-start or type-start pattern.  Stated for bodies     *)
(* without comments and literals, where the loop body sees each line as    *)
(* it stands.                                                              *)
(***************************************************************************)
StartsDeclaration(stripped) ==
    \/ TYPE_START(stripped)
    \/ looks_like_method_start(stripped)
    \/ looks_like_field_start(stripped)

C25_OneDeclarationPerEntry ==
    (pc = "for_raw_line" /\ PlainBody(body_lines))
    => \A n \in 1..Len(hist.origins) :
           \A k \in (hist.origins[n].first + 1)..hist.origins[n].last :
               ~StartsDeclaration(strip(body_lines[k]))

(***************************************************************************)
(* C26: every accumulation ends in an emission: when the last line of the  *)
(* body has been processed no declaration is still pending.                *)
(***************************************************************************)
C26_NothingPendingAtReturn ==
    (pc = "for_raw_line" /\ line_idx > Len(body_lines)) => ex.pending_kind = NoKind

(***************************************************************************)
(* C30: between two lines the extractor is in exactly one of the states    *)
(* Scanning, SkippingNestedTypeHeader, AccumulatingField and               *)
(* AccumulatingMethod: skipping_type_header and pending_kind are never     *)
(* both set, pending_parts is non-empty exactly while pending_kind is set, *)
(* and with pending_kind reset pending_parts is empty and                  *)
(* pending_paren_depth is 0.                                               *)
(***************************************************************************)
ExtractorState(e) ==
    {s \in {"Scanning", "SkippingNestedTypeHeader", "AccumulatingField", "AccumulatingMethod"} :
        \/ s = "Scanning" /\ Scanning(e)
        \/ s = "SkippingNestedTypeHeader" /\ e.skipping_type_header
        \/ s = "AccumulatingField" /\ e.pending_kind = "field"
        \/ s = "AccumulatingMethod" /\ e.pending_kind = "method"}

C30_OneStatePerLine ==
    pc = "for_raw_line"
    => /\ Cardinality(ExtractorState(ex)) = 1
       /\ ~(ex.skipping_type_header /\ ex.pending_kind # NoKind)
       /\ (ex.pending_parts # <<>>) <=> (ex.pending_kind # NoKind)
       /\ ex.pending_kind = NoKind => ex.pending_paren_depth = 0

\* a declaration accumulated over two lines has just completed, after a nested
\* type header was skipped
C30_Witness ==
    /\ pc = "for_raw_line"
    /\ Len(hist.origins) > 0
    /\ hist.origins[Len(hist.origins)].last = line_idx - 1
    /\ hist.origins[Len(hist.origins)].first < line_idx - 1
    /\ ex.pending_kind = NoKind
    /\ \E k \in 1..(line_idx - 1) : TYPE_START(strip(body_lines[k]))

(***************************************************************************)
(* C24: comments are invisible to the type-block locator: two texts that   *)
(* differ only in the content of line or block comments have the same      *)
(* TypeBlocks (kind, name) with the same body bounds.  Stated for a text   *)
(* and the text with every character of comment content replaced by a      *)
(* blank, line ends kept; comments are what strip_comments takes for them. *)
(***************************************************************************)
BlankStep(t, i, st) ==
    LET Put(ch, mode, skip) == [mode |-> mode, skip |-> skip, out |-> st.out \o ch] IN
    IF st.skip THEN Put(At(t, i), st.mode, FALSE)
    ELSE IF st.mode = "code"
    THEN IF StartsWithAt(t, "/*", i) THEN Put("/", "block", TRUE)
         ELSE IF StartsWithAt(t, "//", i) THEN Put("/", "line", TRUE)
         ELSE Put(At(t, i), "code", FALSE)
    ELSE IF st.mode = "block"
    THEN IF StartsWithAt(t, "*/", i) THEN Put("*", "code", TRUE)
         ELSE Put(IF At(t, i) = "\n" THEN "\n" ELSE " ", "block", FALSE)
    ELSE IF At(t, i) = "\n" THEN Put("\n", "code", FALSE)
    ELSE Put(" ", "line", FALSE)

RECURSIVE BlankLoop(_, _, _, _)
BlankLoop(t, a, b, st) ==
    IF st.mode = "" \/ a >= b THEN st
    ELSE IF b = a + 1 THEN BlankStep(t, a, st)
    ELSE BlankLoop(t, (a + b) \div 2, b, BlankLoop(t, a, (a + b) \div 2, st))

BlankComments(t) ==
    BlankLoop(t, 0, Len(t), [mode |-> "code", skip |-> FALSE, out |-> ""]).out

Located(blocks) ==
    [k \in 1..Len(blocks) |->
        [kind |-> blocks[k].kind, name |-> blocks[k].name,
         open_brace |-> blocks[k].open_brace, close_brace |-> blocks[k].close_brace]]

C24_CommentsInvisibleToLocator ==
    pc \in {"for_type_block", "for_raw_line", "returned"}
    => Located(types) = Located(parse_types(BlankComments(text)))

(***************************************************************************)
(* The generator's main as one operation on the file tree: the output      *)
(* directory is cleared of signature files, the candidate files are        *)
(* collected, one signature file is written per candidate and the indexes  *)
(* are built from the signature files found under the output directory.    *)
(* Paths are relative to the repository root (sources) and to the output   *)
(* directory (signature files), "/"-separated.                             *)
(***************************************************************************)
EXCLUDED_DIRS ==
    {".beads", ".claude", ".codex", ".git", ".idea", ".gradle", ".mvn", ".signatures",
     ".worktrees", "__pycache__", "build", "out", "target", "node_modules", "dist",
     "signatures", "venv", ".venv"}

JAVA_EXTENSIONS == {".java", ".kt", ".kts", ".scala"}

\* Path.name and Path.suffix
path_name(path) == split(path, "/")[Len(split(path, "/"))]

path_suffix(path) ==
    LET Suffix(name, dots) ==
            IF dots = {} \/ Greatest(dots) = 0 \/ Greatest(dots) = Len(name) - 1 THEN ""
            ELSE Slice(name, Greatest(dots), Len(name))
        Named(name) == Suffix(name, {i \in 0..(Len(name) - 1) : At(name, i) = "."})
    IN  Named(path_name(path))

\* lines 390-461, the loop over the lines and the return
RECURSIVE extract_members_loop(_, _, _)
extract_members_loop(lines, i, e) ==
    IF Len(e.fields) < 0 \/ i > Len(lines) THEN e
    ELSE extract_members_loop(lines, i + 1, extract_line(e, lines[i]))

extract_members_from_body(body) ==
    LET Returned(e) == [fields |-> unique_stable(e.fields), methods |-> unique_stable(e.methods)]
    IN  Returned(extract_members_loop(splitlines(body), 1, ExtractorLocals))

\* lines 464-475
RECURSIVE parse_types_and_members_loop(_, _, _, _)
parse_types_and_members_loop(source, blocks, k, st) ==
    LET Extended(members) ==
            [fields |-> st.fields \o members.fields, methods |-> st.methods \o members.methods]
    IN  IF Len(st.fields) < 0 \/ k > Len(blocks) THEN st
        ELSE IF Unresolved(blocks[k]) THEN parse_types_and_members_loop(source, blocks, k + 1, st)
        ELSE parse_types_and_members_loop(source, blocks, k + 1,
                 Extended(extract_members_from_body(
                     Slice(source, blocks[k].open_brace + 1, blocks[k].close_brace))))

\* lines 464-475: types, methods, fields
parse_types_and_members(source) ==
    CHOOSE result \in
        {[types |-> blocks,
          members |-> parse_types_and_members_loop(source, blocks, 1,
                          [fields |-> <<>>, methods |-> <<>>])] :
            blocks \in {parse_types(source)}} : TRUE

\* lines 478-511
parse_file(rel_path, source) ==
    CHOOSE record \in
        {render(rel_path, source, parsed.types, parsed.members.methods, parsed.members.fields) :
            parsed \in {parse_types_and_members(source)}} : TRUE

\* output_root in path.parents, for an output directory inside the repository
under_output(path, output_dir) == StartsWithAt(path, output_dir \o "/", 0)

\* lines 514-525, over the paths of all files under the root
candidate_files(all_paths, output_dir) ==
    sorted_by(SortedSet({path \in all_paths :
                  /\ path_suffix(path) \in JAVA_EXTENSIONS
                  /\ \A k \in 1..Len(split(path, "/")) : split(path, "/")[k] \notin EXCLUDED_DIRS
                  /\ ~under_output(path, output_dir)}),
              PathLess)

\* the tree with nothing removed
clear_previous_signatures_keeps(tree) == tree

\* lines 535-537: the files the output directory keeps
clear_previous_signatures(tree) ==
    [path \in {p \in DOMAIN tree : ~EndsWith(p, ".sig")} |-> tree[path]]

\* lines 528-532, for every candidate in turn: a later write to a path replaces
\* the earlier one
write_signature_files(tree, candidates, sources) ==
    LET Text(path) == (CHOOSE f \in sources : f.path = path).text
        Written(path) == {k \in 1..Len(candidates) : candidates[k] \o ".sig" = path}
    IN  [path \in DOMAIN tree \cup {candidates[k] \o ".sig" : k \in 1..Len(candidates)} |->
            IF Written(path) = {} THEN tree[path]
            ELSE parse_file(candidates[Greatest(Written(path))],
                            Text(candidates[Greatest(Written(path))]))]

\* lines 593-600: the entries of INDEX.sig
build_index_entries(tree) ==
    filter_from(sorted_by(SortedSet({p \in DOMAIN tree : EndsWith(p, ".sig")}), PathLess), 1,
                LAMBDA p : path_name(p) # "INDEX.sig")

\* lines 602-603: the tree with INDEX.sig written
write_index(tree, entries) ==
    [path \in DOMAIN tree \cup {"INDEX.sig"} |->
        IF path = "INDEX.sig"
        THEN (IF entries = <<>> THEN "" ELSE join_with("\n", entries, 1) \o "\n")
        ELSE tree[path]]

\* every path of a file under the repository root
all_paths == {f.path : f \in src_tree} \cup {out_dir \o "/" \o p : p \in DOMAIN out_tree}

\* lines 629-650
GeneratorMain ==
    /\ tree_pc \in {"edited", "generated", "loaded"}
    /\ \E files_found \in {candidate_files(all_paths, out_dir)} :
       \E written \in {write_signature_files(clear_previous_signatures(out_tree),
                                              files_found, src_tree)} :
       \E entries \in {build_index_entries(written)} :
           /\ out_tree' = write_index(written, entries)
           /\ metadata' = [k \in 1..Len(entries) |->
                              signature_metadata(entries[k], written[entries[k]])]
    /\ tree_pc' = "generated"
    /\ UNCHANGED <<scVars, vjVars, runVars, index_sig, loaded, src_tree, out_dir>>

\* signatures_first_pipeline.py lines 259-263 on the output directory
PipelineLoad ==
    /\ tree_pc = "generated"
    /\ LET Loaded(index, parsed, failed) ==
               IF index.error # "" THEN [error |-> index.error, records |-> <<>>]
               ELSE IF failed # {}
               THEN [error |-> parsed[Least(failed)].error, records |-> <<>>]
               ELSE [error |-> "", records |-> parsed]
           Parsed(index, parsed) ==
               Loaded(index, parsed, {k \in 1..Len(parsed) : parsed[k].error # ""})
           Indexed(index) ==
               Parsed(index, [k \in 1..Len(index.entries) |->
                                 parse_signature(out_tree[index.entries[k]])])
       IN  loaded' = Indexed(read_index(out_tree["INDEX.sig"]))
    /\ tree_pc' = "loaded"
    /\ UNCHANGED <<scVars, vjVars, runVars, index_sig, metadata, src_tree, out_dir, out_tree>>

(***************************************************************************)
(* Specification SpecTree: a repository of up to MaxTreeFiles files, which *)
(* are added and deleted between runs of the generator and loads of the    *)
(* pipeline.                                                               *)
(***************************************************************************)
MaxTreeFiles == 3

SourceFiles ==
    {[path |-> "a/X.kt", text |-> "class X {\nval x = 1\n}"],
     [path |-> "a-b/Y.kt", text |-> "class Y"],
     [path |-> "Z.java", text |-> "public class Z {\npublic int z;\n}"],
     [path |-> "build/G.kt", text |-> "class G"],
     [path |-> "a/notes.txt", text |-> "class N"],
     [path |-> "sigs/S.kt", text |-> "class S"]}

InitTree ==
    /\ StripIdle
    /\ RunIdle
    /\ ValidatorIdle
    /\ index_sig = ""
    /\ metadata = <<>>
    /\ loaded = [error |-> "", records |-> <<>>]
    /\ src_tree = {}
    /\ out_dir \in {"signatures", "sigs"}
    /\ out_tree = <<>>
    /\ tree_pc = "edited"

AddSource ==
    /\ tree_pc \in {"edited", "generated", "loaded"}
    /\ Cardinality(src_tree) < MaxTreeFiles
    /\ \E f \in SourceFiles \ src_tree : src_tree' = src_tree \cup {f}
    /\ tree_pc' = "edited"
    /\ UNCHANGED <<scVars, vjVars, runVars, index_sig, metadata, loaded, out_dir, out_tree>>

DeleteSource ==
    /\ tree_pc \in {"edited", "generated", "loaded"}
    /\ \E f \in src_tree : src_tree' = src_tree \ {f}
    /\ tree_pc' = "edited"
    /\ UNCHANGED <<scVars, vjVars, runVars, index_sig, metadata, loaded, out_dir, out_tree>>

NextTree ==
    \/ AddSource
    \/ DeleteSource
    \/ GeneratorMain
    \/ PipelineLoad

SpecTree == InitTree /\ [][NextTree]_vars

(***************************************************************************)
(* C27: the INDEX.sig that build_indexes writes is accepted by read_index  *)
(* of the pipeline, whatever the directories of the signature files: it is *)
(* path-only, lists no path twice, does not list itself and is in          *)
(* ascending order of the entry strings.                                   *)
(***************************************************************************)
C27_IndexAccepted ==
    tree_pc = "loaded" => ~StartsWithAt(loaded.error, "INDEX.sig must", 0)

(***************************************************************************)
(* C28: in every report the claims computed as supported, at_risk and      *)
(* missing add up to the total of the claims file; so a report with status *)
(* `ok` written for an existing claims file means that every non-trivial   *)
(* claim of the file was evaluated and computed as supported.              *)
(***************************************************************************)
C28_EveryClaimEvaluated ==
    report # NoReport
    => /\ report.claims.supported + report.claims.at_risk + report.claims.missing
              = report.claims.total
       /\ (report.status = "ok" /\ args.claims_file /\ repo.claims_file.state # "absent")
          => \A k \in 1..Len(vj.claims) :
                 vj.claims[k].non_trivial
                 => \E n \in 1..Len(vj.claim_evaluations) :
                        /\ vj.claim_evaluations[n].claim_id = vj.claims[k].claim_id
                        /\ vj.claim_evaluations[n].computed_status = "supported"

(***************************************************************************)
(* C29: when main of the generator has completed, the output directory     *)
(* holds one signature file per candidate source file of the tree as it    *)
(* is, and no other beside INDEX.sig; INDEX.sig lists exactly these files, *)
(* each once; no signature file stems from a file under the output         *)
(* directory.  Files of earlier runs whose sources were deleted are gone.  *)
(***************************************************************************)
SignatureFiles == {p \in DOMAIN out_tree : EndsWith(p, ".sig") /\ p # "INDEX.sig"}

CandidateSources ==
    {f.path : f \in {g \in src_tree :
        /\ path_suffix(g.path) \in JAVA_EXTENSIONS
        /\ \A k \in 1..Len(split(g.path, "/")) : split(g.path, "/")[k] \notin EXCLUDED_DIRS
        /\ ~StartsWithAt(g.path, out_dir \o "/", 0)}}

IndexListed(lines) ==
    /\ {lines[k] : k \in 1..Len(lines)} = SignatureFiles
    /\ Len(lines) = Cardinality(SignatureFiles)

C29_OneSignaturePerCandidate ==
    tree_pc \in {"generated", "loaded"}
    => /\ SignatureFiles = {p \o ".sig" : p \in CandidateSources}
       /\ "INDEX.sig" \in DOMAIN out_tree
       /\ IndexListed(splitlines(out_tree["INDEX.sig"]))
       /\ \A p \in SignatureFiles : ~StartsWithAt(p, out_dir \o "/", 0)

\* a run over a tree with a source under the output directory, an excluded one
\* and a candidate
C29_Witness ==
    /\ tree_pc = "generated"
    /\ \E f \in src_tree : StartsWithAt(f.path, out_dir \o "/", 0)
    /\ \E f \in src_tree : f.path \notin CandidateSources /\ ~StartsWithAt(f.path, out_dir \o "/", 0)
    /\ SignatureFiles # {}

=========================================================================
